---- MODULE Spec2Model ----
(***************************************************************************)
(* Session / stage state machine, partner pairing and room identity of the *)
(* writing-research backend (src/unnamed/part_000).                        *)
(*                                                                         *)
(* Strings are sequences of one-character strings, so that trim, case      *)
(* folding, concatenation and lexicographic comparison are computed as the *)
(* JavaScript code computes them.  The empty sequence is the empty string  *)
(* (falsy in JavaScript); 0 is the falsy number.                           *)
(***************************************************************************)
EXTENDS Integers, Sequences, FiniteSets, TLC

\* ------------------------------------------------------------------------
\* Bounds of the model
\* ------------------------------------------------------------------------
MaxTime == 2
MaxRequestedStage == 6
MaxClock == 20001

\* ------------------------------------------------------------------------
\* Program constants (the clamp of the jump endpoint)
\* ------------------------------------------------------------------------
JumpClampMax == 5
JumpClampMin == 1

\* the number of administrator requests that can be between two awaits
MaxInflight == 2

\* the last time the clock of the token scenario reaches
MaxTokenClock == 129600003

\* ------------------------------------------------------------------------
\* String primitives
\* ------------------------------------------------------------------------
\* String.prototype.toUpperCase, on the alphabet the inputs are drawn from
ToUpperChar(c) ==
  CASE c = "a" -> "A"
    [] c = "b" -> "B"
    [] c = "c" -> "C"
    [] c = "d" -> "D"
    [] c = "k" -> "K"
    [] OTHER -> c

ToUpperCase(s) == [i \in 1..Len(s) |-> ToUpperChar(s[i])]

\* String.prototype.toLowerCase
ToLowerChar(c) ==
  CASE c = "A" -> "a"
    [] c = "B" -> "b"
    [] c = "C" -> "c"
    [] c = "D" -> "d"
    [] c = "K" -> "k"
    [] OTHER -> c

ToLowerCase(s) == [i \in 1..Len(s) |-> ToLowerChar(s[i])]

RECURSIVE TrimStart(_)
TrimStart(s) ==
  IF s = <<>> THEN <<>>
  ELSE IF Head(s) = " " THEN TrimStart(Tail(s)) ELSE s

RECURSIVE TrimEnd(_)
TrimEnd(s) ==
  IF s = <<>> THEN <<>>
  ELSE IF s[Len(s)] = " " THEN TrimEnd(SubSeq(s, 1, Len(s) - 1)) ELSE s

\* String.prototype.trim
Trim(s) == TrimEnd(TrimStart(s))

\* UTF-16 code unit of a character (the order used by the < operator)
CharCode(c) ==
  CASE c = " " -> 32
    [] c = "#" -> 35
    [] c = "1" -> 49
    [] c = "2" -> 50
    [] c = "3" -> 51
    [] c = "A" -> 65
    [] c = "B" -> 66
    [] c = "C" -> 67
    [] c = "D" -> 68
    [] c = "K" -> 75
    [] c = "L" -> 76
    [] c = "a" -> 97
    [] c = "b" -> 98
    [] c = "c" -> 99
    [] c = "d" -> 100
    [] c = "k" -> 107
    [] c = "x" -> 120
    [] c = "y" -> 121
    [] c = "|" -> 124
    [] OTHER -> 0

\* a < b on strings: lexicographic by code unit, a proper prefix is smaller
RECURSIVE StrLess(_, _)
StrLess(a, b) ==
  IF b = <<>> THEN FALSE
  ELSE IF a = <<>> THEN TRUE
  ELSE IF CharCode(Head(a)) < CharCode(Head(b)) THEN TRUE
  ELSE IF CharCode(Head(a)) > CharCode(Head(b)) THEN FALSE
  ELSE StrLess(Tail(a), Tail(b))

\* a || b on strings
OrStr(a, b) == IF a # <<>> THEN a ELSE b

\* `${a}|${b}`
JoinBar(a, b) == a \o <<"|">> \o b

\* ------------------------------------------------------------------------
\* IdentityCodec
\* ------------------------------------------------------------------------
\* md5(text).slice(0, 12): the digest is modelled as an injective tagging of
\* its input (no collisions among the inputs of the model)
md5(text) == <<"#">> \o text

\* buildSessionKey: [ok |-> FALSE] stands for the thrown 400 error
buildSessionKey(group, studentId) ==
  LET g == ToUpperCase(group)
      sid == Trim(studentId)
  IN IF g = <<>> \/ sid = <<>>
       THEN [ok |-> FALSE, key |-> <<>>]
       ELSE [ok |-> TRUE, key |-> JoinBar(g, sid)]

makeSoloRoomId(group, studentId) == <<"solo_">> \o md5(JoinBar(group, studentId))

\* makePairRoomId hashing the two keys in the order given
makePairRoomId_Unsorted(keyA, keyB) ==
  LET a == Trim(keyA)
      b == Trim(keyB)
  IN <<"r_">> \o md5(JoinBar(a, b))

makePairRoomId(keyA, keyB) ==
  LET a == Trim(keyA)
      b == Trim(keyB)
      left == IF StrLess(a, b) THEN a ELSE b
      right == IF StrLess(a, b) THEN b ELSE a
  IN <<"r_">> \o md5(JoinBar(left, right))

\* ------------------------------------------------------------------------
\* State
\* ------------------------------------------------------------------------
VARIABLES
  sessions,     \* store.sessions: the array of session records, in push order
  matchups,     \* store.matchups: the pairing rows derived from the roster
  roster,       \* store.roster: {students, pairings} as last posted
  presenceMap,  \* presenceMap: "roomId|studentId" -> last heartbeat (ms)
  disk,         \* sessions.json as last written by store.saveSessions()
  now,          \* the value Date.now() returns
  last,         \* the last request handled and the status of its response
  bucket,       \* the bucket object sessions.json, when a bucket is configured
  inflight,     \* the sessions.json writes begun and not yet finished
  files,        \* data store: the sessions/<key>.json files
  calls,        \* data store: the updateSession calls in progress
  tokens,       \* admin service: tokens, token -> expiresAt
  adminTokens,  \* server: adminTokens, token -> {expiresAt}
  minted        \* the token strings crypto has returned so far

\* the storage state the request handlers of a server without a bucket,
\* answering each request before the next arrives, leave alone
authVars == <<tokens, adminTokens, minted>>

ioVars == <<bucket, inflight, files, calls, authVars>>

vars == <<sessions, matchups, roster, presenceMap, disk, now, last, ioVars>>

\* Array.prototype.find: the index of the first element, from i on, that the
\* callback accepts (hits[j] is the callback's answer on element j), 0 if none
RECURSIVE FirstIndex(_, _)
FirstIndex(hits, i) ==
  IF i > Len(hits) THEN 0
  ELSE IF hits[i] THEN i
  ELSE FirstIndex(hits, i + 1)

\* findSession: index into store.sessions (0 = null)
findSession(sessionKey) ==
  FirstIndex([i \in 1..Len(sessions) |-> sessions[i].sessionKey = sessionKey], 1)

\* store.sessions.find((s) => s.group === group && s.studentId === studentId)
findByGroupAndId(seq, group, studentId) ==
  FirstIndex([i \in 1..Len(seq) |->
                 seq[i].group = group /\ seq[i].studentId = studentId], 1)

\* ------------------------------------------------------------------------
\* PartnerMatcher: lookup in the pairing table
\* ------------------------------------------------------------------------
NoHint == [found |-> FALSE]

rowMatches(row, sid, sname) ==
  LET aId == Trim(row.studentIdA)
      bId == Trim(row.studentIdB)
      aName == Trim(row.nameA)
      bName == Trim(row.nameB)
  IN \/ (aId # <<>> /\ aId = sid)
     \/ (bId # <<>> /\ bId = sid)
     \/ (aName # <<>> /\ aName = sname)
     \/ (bName # <<>> /\ bName = sname)

hintOfRow(row, sid) ==
  LET aId == Trim(row.studentIdA)
      bId == Trim(row.studentIdB)
      aName == Trim(row.nameA)
      bName == Trim(row.nameB)
  IN [found |-> TRUE,
      roomId |-> OrStr(row.roomId, makePairRoomId(OrStr(aId, aName), OrStr(bId, bName))),
      partnerId |-> IF aId = sid THEN bId ELSE aId,
      partnerName |-> IF aId = sid THEN bName ELSE aName,
      keyA |-> OrStr(aId, aName),
      keyB |-> OrStr(bId, bName)]

RECURSIVE scanRows(_, _, _, _, _)
scanRows(rows, i, upperGroup, sid, sname) ==
  IF i > Len(rows) THEN NoHint
  ELSE IF rows[i].group # <<>> /\ ToUpperCase(rows[i].group) # upperGroup
    THEN scanRows(rows, i + 1, upperGroup, sid, sname)
  ELSE IF ~rowMatches(rows[i], sid, sname)
    THEN scanRows(rows, i + 1, upperGroup, sid, sname)
  ELSE hintOfRow(rows[i], sid)

findMatchForStudent(group, studentId, studentName) ==
  scanRows(matchups, 1, ToUpperCase(group), Trim(studentId), Trim(studentName))

\* ------------------------------------------------------------------------
\* SessionStore: create and get-or-create
\* ------------------------------------------------------------------------
createSession(group, studentId, studentName, partnerHint) ==
  [sessionKey |-> buildSessionKey(group, studentId).key,
   group |-> ToUpperCase(group),
   studentId |-> Trim(studentId),
   studentName |-> Trim(studentName),
   roomId |-> IF partnerHint.found
                THEN OrStr(partnerHint.roomId,
                           makePairRoomId(partnerHint.keyA, partnerHint.keyB))
                ELSE makeSoloRoomId(group, studentId),
   stage |-> 1,
   preText |-> <<>>,
   preSubmittedAt |-> 0,
   draftText |-> <<>>,
   draftSavedAt |-> 0,
   notesText |-> <<>>,
   notesUpdatedAt |-> 0,
   finalText |-> <<>>,
   finalSubmittedAt |-> 0,
   partnerStudentId |-> IF partnerHint.found THEN partnerHint.partnerId ELSE <<>>,
   partnerName |-> IF partnerHint.found THEN partnerHint.partnerName ELSE <<>>,
   createdAt |-> now,
   updatedAt |-> now]

\* the update branch of ensureSession, taking the room of a matching pairing
\* row also when the record has a room
refreshSession_OverwritesRoom(record, group, studentId, studentName, partnerHint) ==
  LET r1 == [record EXCEPT !.studentName = Trim(OrStr(studentName, record.studentName))]
      r2 == IF partnerHint.found
              THEN [r1 EXCEPT !.roomId = OrStr(partnerHint.roomId, r1.roomId)]
              ELSE IF r1.roomId = <<>>
                THEN [r1 EXCEPT !.roomId = makeSoloRoomId(group, studentId)]
                ELSE r1
      r3 == IF partnerHint.found
              THEN [r2 EXCEPT
                      !.partnerStudentId =
                         OrStr(partnerHint.partnerId, r2.partnerStudentId),
                      !.partnerName = OrStr(partnerHint.partnerName, r2.partnerName)]
              ELSE r2
  IN [r3 EXCEPT !.updatedAt = now]

\* the update branch of ensureSession, writing the group and the id of the
\* request over the record's
refreshSession_RewritesIdentity(record, group, studentId, studentName, partnerHint) ==
  LET r1 == [record EXCEPT !.studentName = Trim(OrStr(studentName, record.studentName)),
                           !.group = group,
                           !.studentId = studentId]
      r2 == IF r1.roomId = <<>>
              THEN [r1 EXCEPT !.roomId =
                      IF partnerHint.found
                        THEN OrStr(partnerHint.roomId, r1.roomId)
                        ELSE makeSoloRoomId(group, studentId)]
              ELSE r1
      r3 == IF partnerHint.found
              THEN [r2 EXCEPT
                      !.partnerStudentId =
                         OrStr(partnerHint.partnerId, r2.partnerStudentId),
                      !.partnerName = OrStr(partnerHint.partnerName, r2.partnerName)]
              ELSE r2
  IN [r3 EXCEPT !.updatedAt = now]

\* the update branch of ensureSession, on the existing record
refreshSession(record, group, studentId, studentName, partnerHint) ==
  LET r1 == [record EXCEPT !.studentName = Trim(OrStr(studentName, record.studentName))]
      r2 == IF r1.roomId = <<>>
              THEN [r1 EXCEPT !.roomId =
                      IF partnerHint.found
                        THEN OrStr(partnerHint.roomId, r1.roomId)
                        ELSE makeSoloRoomId(group, studentId)]
              ELSE r1
      r3 == IF partnerHint.found
              THEN [r2 EXCEPT
                      !.partnerStudentId =
                         OrStr(partnerHint.partnerId, r2.partnerStudentId),
                      !.partnerName = OrStr(partnerHint.partnerName, r2.partnerName)]
              ELSE r2
  IN [r3 EXCEPT !.updatedAt = now]

\* ensureSession without the lookup of an existing record
ensureSession_AlwaysCreate(group, studentId, studentName) ==
  LET upperGroup == ToUpperCase(group)
      partnerHint == IF upperGroup = <<"A">> \/ upperGroup = <<"B">>
                       THEN findMatchForStudent(group, studentId, studentName)
                       ELSE NoHint
  IN Append(sessions, createSession(group, studentId, studentName, partnerHint))

\* ensureSession: the new value of store.sessions (the key is valid)
ensureSession(group, studentId, studentName) ==
  LET sessionKey == buildSessionKey(group, studentId).key
      idx == findSession(sessionKey)
      upperGroup == ToUpperCase(group)
      partnerHint == IF upperGroup = <<"A">> \/ upperGroup = <<"B">>
                       THEN findMatchForStudent(group, studentId, studentName)
                       ELSE NoHint
  IN IF idx = 0
       THEN Append(sessions, createSession(group, studentId, studentName, partnerHint))
       ELSE [sessions EXCEPT ![idx] =
               refreshSession(sessions[idx], group, studentId, studentName, partnerHint)]

\* ------------------------------------------------------------------------
\* StageMachine.  A handler yields [ok, rec]: ok = FALSE is the thrown
\* 400 error, rec the record as the handler left it.
\* ------------------------------------------------------------------------
\* The messages of the 400 errors of the stage handlers and content routes,
\* named by what they ask for
MsgSaveDraftFirst == "save the stage-2 memo (draft) first"
MsgSaveNotesFirst == "save the stage-3 memo (notes) first"
MsgCompletePreviousStage == "complete the previous stage before the final stage"
MsgNoPeerStage == "this group has no stage 3"
MsgSubmitPrewritingFirst == "submit the prewriting first"
MsgFinalConditionNotMet == "the condition for the final stage is not met"
MsgPrewritingAlreadySubmitted == "the prewriting is already submitted"
MsgNoFinalText == "there is no text to submit as final"
MsgFieldRequired == "the text value is required"
MsgSessionNotFound == "the session is not found"
MsgSessionKeyRequired == "sessionKey is required"
NoMessage == ""

Thrown(record, message) == [ok |-> FALSE, rec |-> record, message |-> message]
Done(record) == [ok |-> TRUE, rec |-> record, message |-> NoMessage]

\* Number(record.stage || 1)
stageOf(record) == IF record.stage = 0 THEN 1 ELSE record.stage

ensureStage(record, target) ==
  [record EXCEPT !.stage = target, !.updatedAt = now]

handleAdvanceToPeer(record) ==
  LET stage == stageOf(record)
      group == ToUpperCase(record.group)
  IN IF stage = 2
       THEN IF record.draftText = <<>> THEN Thrown(record, MsgSaveDraftFirst)
            ELSE IF group = <<"C">> THEN Done(ensureStage(record, 4))
            ELSE Done(ensureStage(record, 3))
     ELSE IF stage = 3
       THEN IF record.notesText = <<>> THEN Thrown(record, MsgSaveNotesFirst)
            ELSE Done(ensureStage(record, 4))
     ELSE IF stage < 2 THEN Done(ensureStage(record, 2))
     ELSE Done(record)

\* handleAdvanceToFinal testing the draft before the notes and the stage
handleAdvanceToFinal_DraftFirst(record) ==
  LET group == ToUpperCase(record.group)
      stage == stageOf(record)
  IN IF record.draftText = <<>> THEN Thrown(record, MsgSaveDraftFirst)
     ELSE IF (group = <<"A">> \/ group = <<"B">>) /\ record.notesText = <<>>
       THEN Thrown(record, MsgSaveNotesFirst)
     ELSE IF group # <<"C">> /\ stage < 3 THEN Thrown(record, MsgCompletePreviousStage)
     ELSE Done(ensureStage(record, 4))

handleAdvanceToFinal(record) ==
  LET group == ToUpperCase(record.group)
      stage == stageOf(record)
  IN IF (group = <<"A">> \/ group = <<"B">>) /\ record.notesText = <<>>
       THEN Thrown(record, MsgSaveNotesFirst)
     ELSE IF group # <<"C">> /\ stage < 3 THEN Thrown(record, MsgCompletePreviousStage)
     ELSE IF record.draftText = <<>> THEN Thrown(record, MsgSaveDraftFirst)
     ELSE Done(ensureStage(record, 4))

handleJump(record, desired) ==
  LET group == ToUpperCase(record.group)
      currentStage == stageOf(record)
      peer == group = <<"A">> \/ group = <<"B">>
      movingForward == desired > currentStage
  IN IF desired = 3 /\ ~peer THEN Thrown(record, MsgNoPeerStage)
     ELSE IF desired = currentStage THEN Done(record)
     ELSE IF movingForward
       THEN IF desired = 2 /\ record.preText = <<>>
              THEN Thrown(record, MsgSubmitPrewritingFirst)
            ELSE IF desired = 3 /\ record.draftText = <<>>
              THEN Thrown(record, MsgSaveDraftFirst)
            ELSE IF desired = 4 /\ peer /\ record.notesText = <<>>
              THEN Thrown(record, MsgSaveNotesFirst)
            ELSE IF desired = 4 /\ ~peer /\ group = <<"C">> /\ record.draftText = <<>>
              THEN Thrown(record, MsgSaveDraftFirst)
            ELSE IF desired = 4 /\ ~peer /\ group # <<"C">>
                    /\ record.finalText = <<>> /\ record.finalSubmittedAt = 0
              THEN Thrown(record, MsgFinalConditionNotMet)
            ELSE Done(ensureStage(record, desired))
     ELSE IF desired = 2 /\ record.preText = <<>>
       THEN Thrown(record, MsgSubmitPrewritingFirst)
     ELSE IF desired = 3 /\ record.draftText = <<>>
       THEN Thrown(record, MsgSaveDraftFirst)
     ELSE Done(ensureStage(record, desired))

handleRegress(record) ==
  LET currentStage == stageOf(record)
      group == ToUpperCase(record.group)
  IN IF currentStage <= 1 THEN record
     ELSE IF currentStage = 2 THEN ensureStage(record, 1)
     ELSE IF currentStage = 3 THEN ensureStage(record, 2)
     ELSE ensureStage(record, IF group = <<"C">> THEN 2 ELSE 3)

\* clampStage without the upper bound of the clamp
clampStage_NoUpperBound(requested) ==
  LET n == IF requested = 0 THEN 1 ELSE requested
  IN IF n < JumpClampMin THEN JumpClampMin ELSE n

\* Math.min(5, Math.max(1, Number(req.body?.stage || 0) || 1))
clampStage(requested) ==
  LET n == IF requested = 0 THEN 1 ELSE requested
      lo == IF n < JumpClampMin THEN JumpClampMin ELSE n
  IN IF lo > JumpClampMax THEN JumpClampMax ELSE lo

\* ------------------------------------------------------------------------
\* PartnerMatcher: administrative assign / clear.  Both yield the new value
\* of store.sessions.
\* ------------------------------------------------------------------------
\* the partner record assignPartnerRecord resolves (index, 0 = none)
resolvePartner(idx, payload) ==
  LET partnerSessionKey == Trim(payload.partnerSessionKey)
      partnerId == Trim(payload.partnerId)
      byKey == IF partnerSessionKey # <<>> THEN findSession(partnerSessionKey) ELSE 0
  IN IF byKey = 0 /\ partnerId # <<>>
       THEN findByGroupAndId(sessions, sessions[idx].group, partnerId)
       ELSE byKey

\* assignPartnerRecord without the assignment of the room to the partner
assignPartnerRecord_PartnerKeepsRoom(idx, payload) ==
  LET record == sessions[idx]
      partnerId == Trim(payload.partnerId)
      partnerName == Trim(payload.partnerName)
      pIdx == resolvePartner(idx, payload)
  IN IF pIdx # 0 /\ sessions[pIdx].sessionKey = record.sessionKey
       THEN [ok |-> FALSE, sess |-> sessions, partner |-> <<>>]
     ELSE IF pIdx # 0
       THEN LET partnerRecord == sessions[pIdx]
                roomId == OrStr(record.roomId,
                            OrStr(partnerRecord.roomId,
                                  makePairRoomId(record.sessionKey,
                                                 partnerRecord.sessionKey)))
            IN [ok |-> TRUE,
                partner |-> partnerRecord.sessionKey,
                sess |-> [sessions EXCEPT
                  ![idx] = [record EXCEPT
                              !.roomId = roomId,
                              !.partnerStudentId = partnerRecord.studentId,
                              !.partnerName = partnerRecord.studentName,
                              !.updatedAt = now],
                  ![pIdx] = [partnerRecord EXCEPT
                              !.partnerStudentId = record.studentId,
                              !.partnerName = record.studentName,
                              !.updatedAt = now]]]
     ELSE [ok |-> TRUE,
           partner |-> <<>>,
           sess |-> [sessions EXCEPT
             ![idx] = [record EXCEPT
                         !.partnerStudentId = partnerId,
                         !.partnerName = partnerName,
                         !.updatedAt = now]]]

\* assignPartnerRecord without the refusal of the session itself as partner
assignPartnerRecord_NoSelfCheck(idx, payload) ==
  LET record == sessions[idx]
      partnerId == Trim(payload.partnerId)
      partnerName == Trim(payload.partnerName)
      pIdx == resolvePartner(idx, payload)
  IN IF pIdx # 0
       THEN LET partnerRecord == sessions[pIdx]
                roomId == OrStr(record.roomId,
                            OrStr(partnerRecord.roomId,
                                  makePairRoomId(record.sessionKey,
                                                 partnerRecord.sessionKey)))
            IN [ok |-> TRUE,
                partner |-> partnerRecord.sessionKey,
                sess |-> [sessions EXCEPT
                  ![idx] = [record EXCEPT
                              !.roomId = roomId,
                              !.partnerStudentId = partnerRecord.studentId,
                              !.partnerName = partnerRecord.studentName,
                              !.updatedAt = now],
                  ![pIdx] = [partnerRecord EXCEPT
                              !.roomId = roomId,
                              !.partnerStudentId = record.studentId,
                              !.partnerName = record.studentName,
                              !.updatedAt = now]]]
     ELSE [ok |-> TRUE,
           partner |-> <<>>,
           sess |-> [sessions EXCEPT
             ![idx] = [record EXCEPT
                         !.partnerStudentId = partnerId,
                         !.partnerName = partnerName,
                         !.updatedAt = now]]]

assignPartnerRecord(idx, payload) ==
  LET record == sessions[idx]
      partnerId == Trim(payload.partnerId)
      partnerName == Trim(payload.partnerName)
      pIdx == resolvePartner(idx, payload)
  IN IF pIdx # 0 /\ sessions[pIdx].sessionKey = record.sessionKey
       THEN [ok |-> FALSE, sess |-> sessions, partner |-> <<>>]
     ELSE IF pIdx # 0
       THEN LET partnerRecord == sessions[pIdx]
                roomId == OrStr(record.roomId,
                            OrStr(partnerRecord.roomId,
                                  makePairRoomId(record.sessionKey,
                                                 partnerRecord.sessionKey)))
            IN [ok |-> TRUE,
                partner |-> partnerRecord.sessionKey,
                sess |-> [sessions EXCEPT
                  ![idx] = [record EXCEPT
                              !.roomId = roomId,
                              !.partnerStudentId = partnerRecord.studentId,
                              !.partnerName = partnerRecord.studentName,
                              !.updatedAt = now],
                  ![pIdx] = [partnerRecord EXCEPT
                              !.roomId = roomId,
                              !.partnerStudentId = record.studentId,
                              !.partnerName = record.studentName,
                              !.updatedAt = now]]]
     ELSE [ok |-> TRUE,
           partner |-> <<>>,
           sess |-> [sessions EXCEPT
             ![idx] = [record EXCEPT
                         !.partnerStudentId = partnerId,
                         !.partnerName = partnerName,
                         !.updatedAt = now]]]

clearPartnerRecord(idx) ==
  LET record == sessions[idx]
      pIdx == IF record.partnerStudentId # <<>>
                THEN findByGroupAndId(sessions, record.group, record.partnerStudentId)
                ELSE 0
      s1 == IF pIdx # 0 /\ sessions[pIdx].partnerStudentId = record.studentId
              THEN [sessions EXCEPT
                      ![pIdx] = [@ EXCEPT !.partnerStudentId = <<>>,
                                          !.partnerName = <<>>,
                                          !.updatedAt = now]]
              ELSE sessions
  IN [s1 EXCEPT ![idx] = [@ EXCEPT !.partnerStudentId = <<>>,
                                   !.partnerName = <<>>,
                                   !.updatedAt = now]]

\* ------------------------------------------------------------------------
\* SessionStore: bulk delete
\* ------------------------------------------------------------------------
presenceKey(roomId, studentId) == JoinBar(roomId, studentId)

\* ------------------------------------------------------------------------
\* PresenceTracker
\* ------------------------------------------------------------------------
PRESENCE_TTL_MS == 20000

\* presenceMap.set(key, value)
MapSet(map, key, value) ==
  [k \in (DOMAIN map) \cup {key} |-> IF k = key THEN value ELSE map[k]]

\* touchPresence: the presence map after the call
touchPresence(roomId, studentId) ==
  IF roomId = <<>> \/ studentId = <<>> THEN presenceMap
  ELSE MapSet(presenceMap, presenceKey(roomId, studentId), now)

\* markLeave: the presence map after the call
markLeave(roomId, studentId) ==
  [k \in (DOMAIN presenceMap) \ {presenceKey(roomId, studentId)} |-> presenceMap[k]]

readPresence(roomId, studentId) ==
  IF roomId = <<>> \/ studentId = <<>> THEN 0
  ELSE IF presenceKey(roomId, studentId) \in DOMAIN presenceMap
    THEN presenceMap[presenceKey(roomId, studentId)]
    ELSE 0

\* isOnline of a summary that also counts the instant the TTL expires
isOnline_InclusiveTtl(ts) == IF ts = 0 THEN 0 ELSE now - ts <= PRESENCE_TTL_MS

\* isOnline: ts && now - ts < PRESENCE_TTL_MS (0 when there is no heartbeat)
isOnline(ts) == IF ts = 0 THEN 0 ELSE now - ts < PRESENCE_TTL_MS

\* null stands for the partner of a summary taken without a partner id
NoPartnerPresence == [lastSeen |-> 0, online |-> 0, present |-> FALSE]

buildPresenceSummary(roomId, studentId, partnerStudentId) ==
  LET selfTs == readPresence(roomId, studentId)
      partnerTs == IF partnerStudentId # <<>>
                     THEN readPresence(roomId, partnerStudentId) ELSE 0
  IN [self |-> [lastSeen |-> selfTs, online |-> isOnline(selfTs)],
      partner |-> IF partnerStudentId # <<>>
                    THEN [lastSeen |-> partnerTs, online |-> isOnline(partnerTs),
                          present |-> TRUE]
                    ELSE NoPartnerPresence]

\* the presence part of buildSessionState(record)
presenceOf(record) ==
  buildPresenceSummary(record.roomId, record.studentId, record.partnerStudentId)

\* new Set(keys.map(trim).filter(Boolean))
deleteKeySet(keys) == {Trim(k) : k \in keys} \ {<<>>}

\* deleteSessionsByKeys leaving the partner fields of the remaining sessions
deleteSessionsByKeys_KeepsPartnerRefs(keys) ==
  LET keySet == deleteKeySet(keys)
      removed == {i \in 1..Len(sessions) : sessions[i].sessionKey \in keySet}
      removedSessionIds == {sessions[i].sessionKey : i \in removed}
      removedPresence ==
        {presenceKey(sessions[i].roomId, sessions[i].studentId) : i \in removed}
      Keep(record) == record.sessionKey \notin keySet
  IN [sess |-> SelectSeq(sessions, Keep),
      presence |-> [k \in (DOMAIN presenceMap) \ removedPresence |-> presenceMap[k]],
      deleted |-> Cardinality(removedSessionIds)]

deleteSessionsByKeys(keys) ==
  LET keySet == deleteKeySet(keys)
      removed == {i \in 1..Len(sessions) : sessions[i].sessionKey \in keySet}
      removedSessionIds == {sessions[i].sessionKey : i \in removed}
      removedStudentIds == {sessions[i].studentId : i \in removed}
      removedPresence ==
        {presenceKey(sessions[i].roomId, sessions[i].studentId) : i \in removed}
      Keep(record) == record.sessionKey \notin keySet
      remaining == SelectSeq(sessions, Keep)
  IN [sess |-> [i \in 1..Len(remaining) |->
                  IF remaining[i].partnerStudentId \in removedStudentIds
                    THEN [remaining[i] EXCEPT !.partnerStudentId = <<>>,
                                              !.partnerName = <<>>]
                    ELSE remaining[i]],
      presence |-> [k \in (DOMAIN presenceMap) \ removedPresence |-> presenceMap[k]],
      deleted |-> Cardinality(removedSessionIds)]

\* ------------------------------------------------------------------------
\* Roster
\* ------------------------------------------------------------------------
normalizeRosterPayload(body) ==
  LET trimmedStudents ==
        [i \in 1..Len(body.students) |->
           [id |-> Trim(body.students[i].id), name |-> Trim(body.students[i].name)]]
      HasId(item) == item.id # <<>>
      filteredStudents == SelectSeq(trimmedStudents, HasId)
      idSet == {ToLowerCase(filteredStudents[i].id) : i \in 1..Len(filteredStudents)}
      trimmedPairs ==
        [i \in 1..Len(body.pairings) |->
           [primary |-> [id |-> Trim(body.pairings[i].primary.id),
                         name |-> Trim(body.pairings[i].primary.name)],
            partner |-> [id |-> Trim(body.pairings[i].partner.id),
                         name |-> Trim(body.pairings[i].partner.name)]]]
      Known(pair) == /\ pair.primary.id # <<>>
                     /\ pair.partner.id # <<>>
                     /\ ToLowerCase(pair.primary.id) \in idSet
                     /\ ToLowerCase(pair.partner.id) \in idSet
  IN [students |-> filteredStudents, pairings |-> SelectSeq(trimmedPairs, Known)]

\* first character of the id, upper-cased; <<>> stands for undefined
inferGroupFromId(id) ==
  IF id = <<>> THEN <<>>
  ELSE LET t == Trim(id) IN IF t = <<>> THEN <<>> ELSE <<ToUpperChar(t[1])>>

matchupsOfPairings(pairings) ==
  [i \in 1..Len(pairings) |->
     [studentIdA |-> pairings[i].primary.id,
      nameA |-> pairings[i].primary.name,
      studentIdB |-> pairings[i].partner.id,
      nameB |-> pairings[i].partner.name,
      group |-> inferGroupFromId(pairings[i].primary.id),
      roomId |-> <<>>]]

\* ------------------------------------------------------------------------
\* Content submissions (the record transformation of each route)
\* ------------------------------------------------------------------------
\* submitPrewriting without the check of an earlier submission
submitPrewriting_NoConflictCheck(record, text) ==
  LET r1 == [record EXCEPT !.preText = Trim(text), !.preSubmittedAt = now]
      r2 == IF stageOf(r1) < 2 THEN ensureStage(r1, 2) ELSE r1
  IN Done([r2 EXCEPT !.updatedAt = now])

submitPrewriting(record, text) ==
  IF record.preText # <<>> THEN Thrown(record, MsgPrewritingAlreadySubmitted)
  ELSE LET r1 == [record EXCEPT !.preText = Trim(text), !.preSubmittedAt = now]
           r2 == IF stageOf(r1) < 2 THEN ensureStage(r1, 2) ELSE r1
       IN Done([r2 EXCEPT !.updatedAt = now])

saveDraft(record, text) ==
  LET r1 == [record EXCEPT !.draftText = Trim(text), !.draftSavedAt = now]
      r2 == IF stageOf(r1) < 2 THEN ensureStage(r1, 2) ELSE r1
  IN Done([r2 EXCEPT !.updatedAt = now])

\* saveNotes moving to stage 3 whatever the group
saveNotes_AnyGroup(record, text) ==
  LET r1 == [record EXCEPT !.notesText = Trim(text), !.notesUpdatedAt = now]
      group == ToUpperCase(r1.group)
      r2 == IF stageOf(r1) < 3
              THEN ensureStage(r1, 3) ELSE r1
  IN Done([r2 EXCEPT !.updatedAt = now])

saveNotes(record, text) ==
  LET r1 == [record EXCEPT !.notesText = Trim(text), !.notesUpdatedAt = now]
      group == ToUpperCase(r1.group)
      r2 == IF stageOf(r1) < 3 /\ (group = <<"A">> \/ group = <<"B">>)
              THEN ensureStage(r1, 3) ELSE r1
  IN Done([r2 EXCEPT !.updatedAt = now])

submitFinal(record, text) ==
  LET t == Trim(text)
  IN IF t = <<>> THEN Thrown(record, MsgNoFinalText)
     ELSE Done(ensureStage([record EXCEPT !.finalText = t,
                                          !.finalSubmittedAt = now], 4))

\* ------------------------------------------------------------------------
\* Requests.  Each action is one route handler run to completion; `last`
\* is the route just answered, the HTTP status of the answer and, for a bulk
\* delete, the count it returned.
\* ------------------------------------------------------------------------
Respond(op, status) ==
  [op |-> op, status |-> status, deleted |-> 0, message |-> NoMessage]

\* find the record, apply the route's transformation, save, answer
\* (results[i] is the transformation's outcome on store.sessions[i])
HandleRecord(op, key, results) ==
  LET idx == findSession(key)
  IN IF idx = 0
       THEN /\ last' = [Respond(op, 404) EXCEPT !.message = MsgSessionNotFound]
            /\ UNCHANGED <<sessions, disk>>
       ELSE LET r == results[idx]
            IN IF r.ok
                 THEN /\ sessions' = [sessions EXCEPT ![idx] = r.rec]
                      /\ disk' = sessions'
                      /\ last' = Respond(op, 200)
                 ELSE /\ sessions' = [sessions EXCEPT ![idx] = r.rec]
                      /\ last' = [Respond(op, 400) EXCEPT !.message = r.message]
                      /\ UNCHANGED disk

\* requireBodyFields(req.body, ['text']) precedes the lookup
HandleText(op, key, text, results) ==
  IF text = <<>>
    THEN /\ last' = [Respond(op, 400) EXCEPT !.message = MsgFieldRequired]
         /\ UNCHANGED <<sessions, disk>>
    ELSE HandleRecord(op, key, results)

\* POST /session/start
SessionStart(group, studentId, studentName) ==
  LET k == buildSessionKey(group, studentId)
  IN /\ IF group = <<>> \/ studentId = <<>> \/ studentName = <<>> \/ ~k.ok
          THEN /\ last' = Respond("start", 400)
               /\ UNCHANGED <<sessions, disk>>
          ELSE /\ sessions' = ensureSession(group, studentId, studentName)
               /\ disk' = sessions'
               /\ last' = Respond("start", 200)
     /\ UNCHANGED <<matchups, roster, presenceMap, now, ioVars>>

\* POST /session/:sessionKey/prewriting
PostPrewriting(key, text) ==
  /\ LET results == [i \in 1..Len(sessions) |->
                       submitPrewriting(sessions[i], text)]
     IN HandleText("prewriting", key, text, results)
  /\ UNCHANGED <<matchups, roster, presenceMap, now, ioVars>>

\* POST /session/:sessionKey/draft
PostDraft(key, text) ==
  /\ LET results == [i \in 1..Len(sessions) |->
                       saveDraft(sessions[i], text)]
     IN HandleText("draft", key, text, results)
  /\ UNCHANGED <<matchups, roster, presenceMap, now, ioVars>>

\* POST /session/:sessionKey/notes
PostNotes(key, text) ==
  /\ LET results == [i \in 1..Len(sessions) |->
                       saveNotes(sessions[i], text)]
     IN HandleText("notes", key, text, results)
  /\ UNCHANGED <<matchups, roster, presenceMap, now, ioVars>>

\* POST /session/:sessionKey/final
PostFinal(key, text) ==
  /\ LET results == [i \in 1..Len(sessions) |->
                       submitFinal(sessions[i], text)]
     IN HandleText("final", key, text, results)
  /\ UNCHANGED <<matchups, roster, presenceMap, now, ioVars>>

\* POST /session/:sessionKey/advance
PostAdvance(key) ==
  /\ HandleRecord("advance", key,
                  [i \in 1..Len(sessions) |-> handleAdvanceToPeer(sessions[i])])
  /\ UNCHANGED <<matchups, roster, presenceMap, now, ioVars>>

\* POST /session/:sessionKey/advance-final
PostAdvanceFinal(key) ==
  /\ HandleRecord("advance-final", key,
                  [i \in 1..Len(sessions) |-> handleAdvanceToFinal(sessions[i])])
  /\ UNCHANGED <<matchups, roster, presenceMap, now, ioVars>>

\* POST /session/:sessionKey/jump
PostJump(key, requested) ==
  /\ LET results == [i \in 1..Len(sessions) |->
                       handleJump(sessions[i], clampStage(requested))]
     IN HandleRecord("jump", key, results)
  /\ UNCHANGED <<matchups, roster, presenceMap, now, ioVars>>

\* POST /session/:sessionKey/regress
PostRegress(key) ==
  /\ LET results == [i \in 1..Len(sessions) |->
                       Done(handleRegress(sessions[i]))]
     IN HandleRecord("regress", key, results)
  /\ UNCHANGED <<matchups, roster, presenceMap, now, ioVars>>

\* POST /admin/sessions/:sessionKey/partner
AdminAssignPartner(key, payload) ==
  /\ LET idx == findSession(key)
     IN IF idx = 0
          THEN /\ last' = Respond("assign", 404)
               /\ UNCHANGED <<sessions, disk>>
          ELSE LET r == assignPartnerRecord(idx, payload)
               IN IF r.ok
                    THEN /\ sessions' = r.sess
                         /\ disk' = sessions'
                         /\ last' = Respond("assign", 200)
                    ELSE /\ last' = Respond("assign", 400)
                         /\ UNCHANGED <<sessions, disk>>
  /\ UNCHANGED <<matchups, roster, presenceMap, now, ioVars>>

\* DELETE /admin/sessions/:sessionKey/partner
AdminClearPartner(key) ==
  /\ LET idx == findSession(key)
     IN IF idx = 0
          THEN /\ last' = Respond("clear", 404)
               /\ UNCHANGED <<sessions, disk>>
          ELSE /\ sessions' = clearPartnerRecord(idx)
               /\ disk' = sessions'
               /\ last' = Respond("clear", 200)
  /\ UNCHANGED <<matchups, roster, presenceMap, now, ioVars>>

\* POST /admin/sessions/bulk-delete (keys: the set of elements of the array)
AdminBulkDelete(keys) ==
  /\ IF keys = {}
       THEN /\ last' = Respond("delete", 400)
            /\ UNCHANGED <<sessions, disk, presenceMap>>
       ELSE IF deleteKeySet(keys) = {}
         THEN /\ last' = Respond("delete", 200)
              /\ UNCHANGED <<sessions, disk, presenceMap>>
       ELSE LET r == deleteSessionsByKeys(keys)
            IN /\ sessions' = r.sess
               /\ presenceMap' = r.presence
               /\ disk' = sessions'
               /\ last' = [Respond("delete", 200) EXCEPT !.deleted = r.deleted]
  /\ UNCHANGED <<matchups, roster, now, ioVars>>

\* POST /admin/roster
AdminPostRoster(body) ==
  /\ roster' = normalizeRosterPayload(body)
  /\ matchups' = matchupsOfPairings(roster'.pairings)
  /\ last' = Respond("roster", 200)
  /\ UNCHANGED <<sessions, disk, presenceMap, now, ioVars>>

\* POST /session/:sessionKey/presence/touch
PresenceTouch(key) ==
  LET idx == findSession(key)
  IN /\ IF idx = 0
          THEN /\ last' = [Respond("touch", 404) EXCEPT !.message = MsgSessionNotFound]
               /\ UNCHANGED presenceMap
          ELSE /\ presenceMap' = touchPresence(sessions[idx].roomId,
                                               sessions[idx].studentId)
               /\ last' = Respond("touch", 200)
     /\ UNCHANGED <<sessions, matchups, roster, disk, now, ioVars>>

\* POST /session/:sessionKey/presence/leave
PresenceLeave(key) ==
  LET idx == findSession(key)
  IN /\ IF idx = 0
          THEN UNCHANGED presenceMap
          ELSE presenceMap' = markLeave(sessions[idx].roomId, sessions[idx].studentId)
     /\ last' = Respond("leave", 200)
     /\ UNCHANGED <<sessions, matchups, roster, disk, now, ioVars>>

\* ms milliseconds pass between requests
Elapse(ms) ==
  /\ now + ms <= MaxClock
  /\ now' = now + ms
  /\ UNCHANGED <<sessions, matchups, roster, presenceMap, disk, last, ioVars>>

\* ------------------------------------------------------------------------
\* Data store (createDataStore): one file per session.  An updater is named
\* by what it does to the copy of the record it is handed:
\*   "returnDraft"  returns the copy with draftText set
\*   "returnNotes"  returns the copy with notesText set
\*   "assignDraft"  sets draftText on the copy and returns nothing
\* ------------------------------------------------------------------------
Updaters == {"returnDraft", "returnNotes", "assignDraft"}

\* readJson(`sessions/${sessionKey}.json`, null); NoFile stands for null
NoFile == [exists |-> FALSE]

getSession(sessionKey) ==
  IF sessionKey \in DOMAIN files THEN files[sessionKey] ELSE NoFile

\* the value of `await updater({ ...current })`; returned = FALSE stands for
\* undefined, rec is then the copy as the updater left it
runUpdater(updater, copy) ==
  CASE updater = "returnDraft" ->
         [returned |-> TRUE, rec |-> [copy EXCEPT !.draftText = <<"x">>]]
    [] updater = "returnNotes" ->
         [returned |-> TRUE, rec |-> [copy EXCEPT !.notesText = <<"y">>]]
    [] OTHER ->
         [returned |-> FALSE, rec |-> [copy EXCEPT !.draftText = <<"x">>]]

\* updateSession writing what its updater makes of the file as it is when
\* the write is done
updatedRecord_Reread(call) ==
  LET current == getSession(call.sessionKey)
      out == runUpdater(call.updater, current)
      updated == IF out.returned THEN out.rec ELSE current
  IN [updated EXCEPT !.updatedAt = now]

\* updateSession after the read: (await updater({ ...current })) || current,
\* then updated.updatedAt = Date.now()
updatedRecord(call) ==
  LET out == runUpdater(call.updater, call.current)
      updated == IF out.returned THEN out.rec ELSE call.current
  IN [updated EXCEPT !.updatedAt = now]

\* saveSession(sessionKey, data): payload = { ...data, sessionKey }
saveSession(sessionKey, data) ==
  [k \in (DOMAIN files) \cup {sessionKey} |->
     IF k = sessionKey THEN [data EXCEPT !.sessionKey = sessionKey] ELSE files[k]]

SaveSession(sessionKey, data) ==
  /\ sessionKey # <<>>
  /\ files' = saveSession(sessionKey, data)
  /\ last' = [op |-> "saveSession", thrown |-> FALSE, message |-> NoMessage]
  /\ UNCHANGED <<sessions, matchups, roster, presenceMap, disk, now,
                 bucket, inflight, calls, authVars>>

\* updateSession up to the end of its read (call c of the callers)
UpdateSessionRead(c, sessionKey, updater) ==
  /\ c \notin DOMAIN calls
  /\ IF sessionKey = <<>>
       THEN /\ last' = [op |-> "updateSession", thrown |-> TRUE,
                        message |-> MsgSessionKeyRequired]
            /\ UNCHANGED calls
       ELSE IF ~getSession(sessionKey).exists
         THEN /\ last' = [op |-> "updateSession", thrown |-> TRUE,
                          message |-> MsgSessionNotFound]
              /\ UNCHANGED calls
       ELSE /\ calls' = [k \in (DOMAIN calls) \cup {c} |->
                           IF k = c
                             THEN [sessionKey |-> sessionKey, updater |-> updater,
                                   current |-> getSession(sessionKey)]
                             ELSE calls[k]]
            /\ last' = [op |-> "readJson", thrown |-> FALSE, message |-> NoMessage]
  /\ UNCHANGED <<sessions, matchups, roster, presenceMap, disk, now,
                 bucket, inflight, files, authVars>>

\* updateSession from the updater to the end of its write
UpdateSessionWrite(c) ==
  /\ c \in DOMAIN calls
  /\ files' = [files EXCEPT ![calls[c].sessionKey] = updatedRecord(calls[c])]
  /\ calls' = [k \in (DOMAIN calls) \ {c} |-> calls[k]]
  /\ last' = [op |-> "updateSession", thrown |-> FALSE, message |-> NoMessage,
              call |-> calls[c], replaced |-> files[calls[c].sessionKey],
              returned |-> updatedRecord(calls[c])]
  /\ UNCHANGED <<sessions, matchups, roster, presenceMap, disk, now,
                 bucket, inflight, authVars>>

\* `chats/${channel}/${sessionId}.json`
chatPath(sessionId, channel) == <<"chats", channel, sessionId>>

\* readJson(relativePath, []) of a chat history
chatHistory(relativePath) ==
  IF relativePath \in DOMAIN files THEN files[relativePath] ELSE <<>>

\* appendChatMessage up to the end of its read (call c of the callers)
AppendChatRead(c, sessionId, channel, message) ==
  /\ c \notin DOMAIN calls
  /\ calls' = [k \in (DOMAIN calls) \cup {c} |->
                 IF k = c
                   THEN [relativePath |-> chatPath(sessionId, channel),
                         message |-> message,
                         history |-> chatHistory(chatPath(sessionId, channel)),
                         returned |-> FALSE]
                   ELSE calls[k]]
  /\ last' = [op |-> "readJson", thrown |-> FALSE, message |-> NoMessage]
  /\ UNCHANGED <<sessions, matchups, roster, presenceMap, disk, now,
                 bucket, inflight, files, authVars>>

\* appendChatMessage from history.push(message) to its return
AppendChatWrite(c) ==
  /\ c \in DOMAIN calls
  /\ ~calls[c].returned
  /\ files' = [k \in (DOMAIN files) \cup {calls[c].relativePath} |->
                 IF k = calls[c].relativePath
                   THEN Append(calls[c].history, calls[c].message)
                   ELSE files[k]]
  /\ calls' = [calls EXCEPT ![c].returned = TRUE]
  /\ last' = [op |-> "appendChatMessage", thrown |-> FALSE, message |-> NoMessage]
  /\ UNCHANGED <<sessions, matchups, roster, presenceMap, disk, now,
                 bucket, inflight, authVars>>

\* ------------------------------------------------------------------------
\* Admin tokens: the admin service (tokens) and the server (adminTokens)
\* ------------------------------------------------------------------------
\* config.admin.tokenTtl, in seconds
ConfiguredTokenTtl == 43200

\* Math.max(60, Number(config.admin?.tokenTtl || 3600)) * 1000
tokenTtlMs ==
  (IF ConfiguredTokenTtl = 0 THEN 3600
   ELSE IF ConfiguredTokenTtl < 60 THEN 60 ELSE ConfiguredTokenTtl) * 1000

ADMIN_SESSION_TTL_MS == 1000 * 60 * 60 * 12

\* Map.prototype.set and Map.prototype.delete
TokenSet(map, token, value) ==
  [t \in (DOMAIN map) \cup {token} |-> IF t = token THEN value ELSE map[t]]

TokenDelete(map, token) == [t \in (DOMAIN map) \ {token} |-> map[t]]

\* issueToken; token is the value of crypto.randomUUID()
IssueToken(token) ==
  /\ token \notin minted
  /\ minted' = minted \cup {token}
  /\ tokens' = TokenSet(tokens, token, now + tokenTtlMs)
  /\ last' = [op |-> "issueToken", token |-> token, result |-> TRUE]
  /\ UNCHANGED <<sessions, matchups, roster, presenceMap, disk, now,
                 bucket, inflight, files, calls, adminTokens>>

\* validateToken (the token is not empty)
ValidateToken(token) ==
  /\ IF token \notin DOMAIN tokens
       THEN /\ last' = [op |-> "validateToken", token |-> token, result |-> FALSE]
            /\ UNCHANGED tokens
       ELSE IF now > tokens[token]
         THEN /\ tokens' = TokenDelete(tokens, token)
              /\ last' = [op |-> "validateToken", token |-> token, result |-> FALSE]
       ELSE /\ tokens' = TokenSet(tokens, token, now + tokenTtlMs)
            /\ last' = [op |-> "validateToken", token |-> token, result |-> TRUE]
  /\ UNCHANGED <<sessions, matchups, roster, presenceMap, disk, now,
                 bucket, inflight, files, calls, adminTokens, minted>>

\* revokeToken
RevokeToken(token) ==
  /\ tokens' = TokenDelete(tokens, token)
  /\ last' = [op |-> "revokeToken", token |-> token, result |-> TRUE]
  /\ UNCHANGED <<sessions, matchups, roster, presenceMap, disk, now,
                 bucket, inflight, files, calls, adminTokens, minted>>

\* issueAdminToken; token is the value of crypto.randomBytes(24)
IssueAdminToken(token) ==
  /\ token \notin minted
  /\ minted' = minted \cup {token}
  /\ adminTokens' = TokenSet(adminTokens, token,
                             [expiresAt |-> now + ADMIN_SESSION_TTL_MS])
  /\ last' = [op |-> "issueAdminToken", token |-> token, result |-> TRUE]
  /\ UNCHANGED <<sessions, matchups, roster, presenceMap, disk, now,
                 bucket, inflight, files, calls, tokens>>

\* validateAdminToken (the token is not empty)
ValidateAdminToken(token) ==
  /\ IF token \notin DOMAIN adminTokens
       THEN /\ last' = [op |-> "validateAdminToken", token |-> token, result |-> FALSE]
            /\ UNCHANGED adminTokens
       ELSE IF adminTokens[token].expiresAt < now
         THEN /\ adminTokens' = TokenDelete(adminTokens, token)
              /\ last' = [op |-> "validateAdminToken", token |-> token,
                          result |-> FALSE]
       ELSE /\ last' = [op |-> "validateAdminToken", token |-> token, result |-> TRUE]
            /\ UNCHANGED adminTokens
  /\ UNCHANGED <<sessions, matchups, roster, presenceMap, disk, now,
                 bucket, inflight, files, calls, tokens, minted>>

\* revokeAdminToken
RevokeAdminToken(token) ==
  /\ adminTokens' = TokenDelete(adminTokens, token)
  /\ last' = [op |-> "revokeAdminToken", token |-> token, result |-> TRUE]
  /\ UNCHANGED <<sessions, matchups, roster, presenceMap, disk, now,
                 bucket, inflight, files, calls, tokens, minted>>

\* time passes by ms milliseconds while admin tokens are in use
Wait(ms) ==
  /\ now + ms <= MaxTokenClock
  /\ now' = now + ms
  /\ UNCHANGED <<sessions, matchups, roster, presenceMap, disk, last, ioVars>>

\* this.bucket = null: no bucket is configured
NoBucket == [configured |-> FALSE, saved |-> FALSE, sessions |-> <<>>]

\* FileStore.writeJson('sessions.json', data).  saveOk: bucket.file().save
\* resolves; writeFileOk: fs.writeFile resolves.  A rejected save is caught
\* and logged; a rejected writeFile is thrown to the caller.
writeJson(data, saveOk, writeFileOk) ==
  [bucket |-> IF bucket.configured /\ saveOk
                THEN [bucket EXCEPT !.saved = TRUE, !.sessions = data]
                ELSE bucket,
   disk |-> IF writeFileOk THEN data ELSE disk,
   thrown |-> ~writeFileOk]

\* FileStore.readJson('sessions.json', []): the bucket's copy when there is
\* one, the file on disk otherwise
readJson ==
  IF bucket.configured /\ bucket.saved THEN bucket.sessions ELSE disk

\* a route's `await store.saveSessions()` and the answer that follows it;
\* the error handler answers err.status || 500
SaveAndRespond(op, data, saveOk, writeFileOk) ==
  LET w == writeJson(data, saveOk, writeFileOk)
  IN /\ bucket' = w.bucket
     /\ disk' = w.disk
     /\ last' = IF w.thrown THEN Respond(op, 500) ELSE Respond(op, 200)

\* POST /session/start, the outcome of the write chosen by the backend
StartWithBackend(group, studentId, studentName, saveOk, writeFileOk) ==
  /\ group # <<>> /\ studentId # <<>> /\ studentName # <<>>
  /\ buildSessionKey(group, studentId).ok
  /\ sessions' = ensureSession(group, studentId, studentName)
  /\ SaveAndRespond("start", ensureSession(group, studentId, studentName),
                    saveOk, writeFileOk)
  /\ UNCHANGED <<matchups, roster, presenceMap, now, inflight, files, calls, authVars>>

\* POST /session/:sessionKey/draft, the outcome of the write chosen by the
\* backend
DraftWithBackend(key, text, saveOk, writeFileOk) ==
  LET idx == findSession(key)
  IN /\ text # <<>>
     /\ idx # 0
     /\ saveDraft(sessions[idx], text).ok
     /\ sessions' = [sessions EXCEPT ![idx] = saveDraft(sessions[idx], text).rec]
     /\ SaveAndRespond("draft",
                       [sessions EXCEPT ![idx] = saveDraft(sessions[idx], text).rec],
                       saveOk, writeFileOk)
     /\ UNCHANGED <<matchups, roster, presenceMap, now, inflight, files, calls, authVars>>

\* POST /session/:sessionKey/prewriting, the outcome of the write chosen by
\* the backend
PrewritingWithBackend(key, text, saveOk, writeFileOk) ==
  LET idx == findSession(key)
  IN /\ text # <<>>
     /\ idx # 0
     /\ submitPrewriting(sessions[idx], text).ok
     /\ sessions' = [sessions EXCEPT ![idx] = submitPrewriting(sessions[idx], text).rec]
     /\ SaveAndRespond("prewriting",
                       [sessions EXCEPT ![idx] = submitPrewriting(sessions[idx], text).rec],
                       saveOk, writeFileOk)
     /\ UNCHANGED <<matchups, roster, presenceMap, now, inflight, files, calls, authVars>>

\* The partner routes of the administrator, one action per stretch of the
\* handler that runs without giving up control.  inflight holds the requests
\* that are between two stretches: phase "mutated" after
\* `await assignPartnerRecord(...)` or `await clearPartnerRecord(...)`,
\* phase "writing" once store.saveSessions() has taken its JSON text.
FreeSlots == (1..MaxInflight) \ {w.id : w \in inflight}

\* POST /admin/sessions/:sessionKey/partner up to the end of the call of
\* assignPartnerRecord, which has no await inside
AssignMutate(key, payload) ==
  LET idx == findSession(key)
  IN /\ FreeSlots # {}
     /\ idx # 0
     /\ assignPartnerRecord(idx, payload).ok
     /\ sessions' = assignPartnerRecord(idx, payload).sess
     /\ inflight' = inflight \cup
          {[id |-> CHOOSE n \in FreeSlots : \A m \in FreeSlots : n <= m,
            op |-> "assign", phase |-> "mutated", json |-> <<>>]}
     /\ UNCHANGED <<matchups, roster, presenceMap, disk, now, last,
                    bucket, files, calls, authVars>>

\* DELETE /admin/sessions/:sessionKey/partner up to the end of the call of
\* clearPartnerRecord, which has no await inside
ClearMutate(key) ==
  LET idx == findSession(key)
  IN /\ FreeSlots # {}
     /\ idx # 0
     /\ sessions' = clearPartnerRecord(idx)
     /\ inflight' = inflight \cup
          {[id |-> CHOOSE n \in FreeSlots : \A m \in FreeSlots : n <= m,
            op |-> "clear", phase |-> "mutated", json |-> <<>>]}
     /\ UNCHANGED <<matchups, roster, presenceMap, disk, now, last,
                    bucket, files, calls, authVars>>

\* store.saveSessions() is called: JSON.stringify(this.sessions) is taken
\* before the first await of writeJson
TakeSnapshot(w) ==
  /\ w \in inflight
  /\ w.phase = "mutated"
  /\ inflight' = (inflight \ {w}) \cup {[w EXCEPT !.phase = "writing", !.json = sessions]}
  /\ UNCHANGED <<sessions, matchups, roster, presenceMap, disk, now, last,
                 bucket, files, calls, authVars>>

\* POST /session/:sessionKey/draft up to the first await of writeJson: the
\* record is changed and store.saveSessions() takes its JSON text in one
\* stretch
DraftBegin(key, text) ==
  LET idx == findSession(key)
  IN /\ FreeSlots # {}
     /\ text # <<>>
     /\ idx # 0
     /\ sessions' = [sessions EXCEPT ![idx] = saveDraft(sessions[idx], text).rec]
     /\ inflight' = inflight \cup
          {[id |-> CHOOSE n \in FreeSlots : \A m \in FreeSlots : n <= m,
            op |-> "draft", phase |-> "writing",
            json |-> [sessions EXCEPT ![idx] = saveDraft(sessions[idx], text).rec]]}
     /\ UNCHANGED <<matchups, roster, presenceMap, disk, now, last,
                    bucket, files, calls, authVars>>

\* fs.writeFile resolves and the route answers
CompleteWrite(w) ==
  /\ w \in inflight
  /\ w.phase = "writing"
  /\ disk' = w.json
  /\ inflight' = inflight \ {w}
  /\ last' = Respond(w.op, 200)
  /\ UNCHANGED <<sessions, matchups, roster, presenceMap, now, bucket, files, calls, authVars>>

\* the process is started again: store.init() reads sessions.json, the
\* presence map is empty
StoreInit ==
  /\ sessions' = readJson
  /\ presenceMap' = [k \in {} |-> 0]
  /\ last' = Respond("init", 0)
  /\ UNCHANGED <<matchups, roster, disk, now, ioVars>>

\* time passes between requests
Tick ==
  /\ now < MaxTime
  /\ now' = now + 1
  /\ UNCHANGED <<sessions, matchups, roster, presenceMap, disk, last, ioVars>>

\* the state after store.init() on an empty data directory
Init ==
  /\ sessions = <<>>
  /\ matchups = <<>>
  /\ roster = [students |-> <<>>, pairings |-> <<>>]
  /\ presenceMap = [k \in {} |-> 0]
  /\ disk = <<>>
  /\ now = 1
  /\ last = Respond("none", 0)
  /\ bucket = NoBucket
  /\ inflight = {}
  /\ files = [k \in {} |-> 0]
  /\ calls = [c \in {} |-> 0]
  /\ tokens = [t \in {} |-> 0]
  /\ adminTokens = [t \in {} |-> 0]
  /\ minted = {}

\* ------------------------------------------------------------------------
\* SpecStage: one participant working through the stages.  The group of
\* the participant is chosen by the first start request.
\* ------------------------------------------------------------------------
StageGroups == {<<"A">>, <<"c">>, <<"D">>}
StageStudentId == <<"1">>
StageStudentName == <<"K">>
UnknownKey == <<"A", "|", "9">>
TextInputs == {<<>>, <<" ">>, <<"x">>, <<"y", " ">>}
RequestedStages == 0..MaxRequestedStage

\* the keys requests are sent for: the sessions that exist, and a key that
\* has no session
RequestKeys == {sessions[i].sessionKey : i \in 1..Len(sessions)} \cup {UnknownKey}

StageStart(group) ==
  /\ sessions = <<>> \/ findSession(buildSessionKey(group, StageStudentId).key) # 0
  /\ SessionStart(group, StageStudentId, StageStudentName)

NextStage ==
  \/ \E g \in StageGroups : StageStart(g)
  \/ \E k \in RequestKeys, t \in TextInputs : PostPrewriting(k, t)
  \/ \E k \in RequestKeys, t \in TextInputs : PostDraft(k, t)
  \/ \E k \in RequestKeys, t \in TextInputs : PostNotes(k, t)
  \/ \E k \in RequestKeys, t \in TextInputs : PostFinal(k, t)
  \/ \E k \in RequestKeys : PostAdvance(k)
  \/ \E k \in RequestKeys : PostAdvanceFinal(k)
  \/ \E k \in RequestKeys, n \in RequestedStages : PostJump(k, n)
  \/ \E k \in RequestKeys : PostRegress(k)

SpecStage == Init /\ [][NextStage]_vars

\* ------------------------------------------------------------------------
\* SpecClock: one participant of group A, the write-once submissions and
\* the passing of time.
\* ------------------------------------------------------------------------
NextClock ==
  \/ StageStart(<<"A">>)
  \/ \E k \in RequestKeys, t \in TextInputs : PostPrewriting(k, t)
  \/ \E k \in RequestKeys, t \in TextInputs : PostFinal(k, t)
  \/ \E k \in RequestKeys : PostAdvance(k)
  \/ \E k \in RequestKeys : PostRegress(k)
  \/ Tick

SpecClock == Init /\ [][NextClock]_vars

\* ------------------------------------------------------------------------
\* SpecFinal: one participant of group A, c or D who saves a draft and notes,
\* advances, asks for the final stage and regresses.
\* ------------------------------------------------------------------------
NextFinal ==
  \/ \E g \in StageGroups : StageStart(g)
  \/ \E k \in RequestKeys : PostDraft(k, <<"x">>)
  \/ \E k \in RequestKeys : PostNotes(k, <<"x">>)
  \/ \E k \in RequestKeys : PostAdvance(k)
  \/ \E k \in RequestKeys : PostAdvanceFinal(k)
  \/ \E k \in RequestKeys : PostRegress(k)

SpecFinal == Init /\ [][NextFinal]_vars

\* ------------------------------------------------------------------------
\* SpecCodec: the identity functions called on their own.  `last` holds the
\* call just made: its arguments and what it returned.
\* ------------------------------------------------------------------------
CodecKeys ==
  { <<>>, <<"A">>, <<"K">>,
    <<"A", "|", "1">>, <<"A", "|", "2">>, <<"B", "|", "1">>, <<"a", "|", "1">>,
    <<"A", "|", "1", " ">>, <<" ", "A", "|", "1">>, <<"A", "|", "1", "2">> }

CodecGroups == { <<>>, <<"A">>, <<"a">>, <<"B">>, <<"A", "|", "B">> }

CodecStudentIds == { <<>>, <<" ">>, <<"1">>, <<"1", " ">>, <<"B", "|", "1">> }

CallMakePairRoomId(keyA, keyB) ==
  /\ last' = [op |-> "makePairRoomId", a |-> keyA, b |-> keyB,
              out |-> makePairRoomId(keyA, keyB)]
  /\ UNCHANGED <<sessions, matchups, roster, presenceMap, disk, now, ioVars>>

\* one buildSessionKey call: arguments, outcome, outcome of the same call again
KeyCall(group, studentId) ==
  [group |-> group, studentId |-> studentId,
   result |-> buildSessionKey(group, studentId),
   again |-> buildSessionKey(group, studentId)]

CallBuildSessionKey(g1, id1, g2, id2) ==
  /\ last' = [op |-> "buildSessionKey",
              first |-> KeyCall(g1, id1), second |-> KeyCall(g2, id2)]
  /\ UNCHANGED <<sessions, matchups, roster, presenceMap, disk, now, ioVars>>

NextCodec ==
  \/ \E a \in CodecKeys, b \in CodecKeys : CallMakePairRoomId(a, b)
  \/ \E g1 \in CodecGroups, id1 \in CodecStudentIds,
        g2 \in CodecGroups, id2 \in CodecStudentIds :
       CallBuildSessionKey(g1, id1, g2, id2)

SpecCodec == Init /\ [][NextCodec]_vars

\* ------------------------------------------------------------------------
\* SpecPair: two participants of group A, the roster and the administrative
\* partner operations.
\* ------------------------------------------------------------------------
Participant(group, id, name) == [group |-> group, id |-> id, name |-> name]
Student(id, name) == [id |-> id, name |-> name]
Pairing(p, q) == [primary |-> p, partner |-> q]

PairParticipants ==
  {Participant(<<"A">>, <<"A", "1">>, <<"K">>),
   Participant(<<"a">>, <<"A", "2", " ">>, <<"L">>)}

\* the request bodies of POST /admin/roster
RosterBodies ==
  LET s1 == Student(<<"A", "1">>, <<"K">>)
      s2 == Student(<<"a", "2">>, <<"L">>)
      s3 == Student(<<"A", "3">>, <<"L">>)
  IN {[students |-> <<s1, s2>>, pairings |-> <<>>],
      [students |-> <<s1, s2>>,
       pairings |-> <<Pairing(s1, Student(<<"A", "2">>, <<"L">>))>>],
      [students |-> <<s1, s2, s3>>, pairings |-> <<Pairing(s1, s3)>>]}

\* the keys of the sessions that exist
SessionKeys == {sessions[i].sessionKey : i \in 1..Len(sessions)}

\* the request bodies of POST /admin/sessions/:sessionKey/partner
AssignPayloads(ids) ==
  {[partnerSessionKey |-> k, partnerId |-> <<>>, partnerName |-> <<>>] :
     k \in SessionKeys}
  \cup
  {[partnerSessionKey |-> <<>>, partnerId |-> i, partnerName |-> <<"L">>] : i \in ids}

\* the sessionKeys arrays of POST /admin/sessions/bulk-delete, as sets
DeleteRequests == {{}} \cup {{k} : k \in RequestKeys}

PairStudentIds == {Trim(p.id) : p \in PairParticipants}

NextPair ==
  \/ \E p \in PairParticipants : SessionStart(p.group, p.id, p.name)
  \/ \E k \in RequestKeys, payload \in AssignPayloads(PairStudentIds) :
       AdminAssignPartner(k, payload)
  \/ \E k \in RequestKeys : AdminClearPartner(k)
  \/ \E keys \in DeleteRequests : AdminBulkDelete(keys)
  \/ \E body \in RosterBodies : AdminPostRoster(body)
  \/ \E k \in SessionKeys : PostDraft(k, <<"x">>)
  \/ \E k \in SessionKeys : PostRegress(k)

SpecPair == Init /\ [][NextPair]_vars

\* ------------------------------------------------------------------------
\* SpecCross: three participants in two groups and the administrative
\* partner operations, without a roster.
\* ------------------------------------------------------------------------
CrossParticipants ==
  {Participant(<<"A">>, <<"A", "1">>, <<"K">>),
   Participant(<<"A">>, <<"A", "2">>, <<"L">>),
   Participant(<<"B">>, <<"B", "1">>, <<"K">>)}

CrossStudentIds == {Trim(p.id) : p \in CrossParticipants}

NextCross ==
  \/ \E p \in CrossParticipants : SessionStart(p.group, p.id, p.name)
  \/ \E k \in RequestKeys, payload \in AssignPayloads(CrossStudentIds) :
       AdminAssignPartner(k, payload)
  \/ \E k \in RequestKeys : AdminClearPartner(k)
  \/ \E keys \in DeleteRequests : AdminBulkDelete(keys)

SpecCross == Init /\ [][NextCross]_vars

\* ------------------------------------------------------------------------
\* SpecLink: the three participants of SpecCross start, and are paired, by
\* session key and by the id of one of them, and unpaired.
\* ------------------------------------------------------------------------
KeyPayloads ==
  {[partnerSessionKey |-> k, partnerId |-> <<>>, partnerName |-> <<>>] :
     k \in SessionKeys}

LinkPayloads ==
  KeyPayloads \cup
  {[partnerSessionKey |-> <<>>, partnerId |-> <<"A", "2">>, partnerName |-> <<"L">>]}

NextLink ==
  \/ \E p \in CrossParticipants : SessionStart(p.group, p.id, p.name)
  \/ \E k \in RequestKeys, payload \in LinkPayloads : AdminAssignPartner(k, payload)
  \/ \E k \in RequestKeys : AdminClearPartner(k)

SpecLink == Init /\ [][NextLink]_vars

\* ------------------------------------------------------------------------
\* Stage range and peer stage
\* ------------------------------------------------------------------------
SessionIndexes == 1..Len(sessions)

\* C1 as stated: through any sequence of advance, jump (with any requested
\* stage, as clamped by the endpoint), regress and content submissions, the
\* stage of a session never exceeds 4 and never drops below 1.
C1_StageWithinOneToFour == \A i \in SessionIndexes : sessions[i].stage \in 1..4

\* C1 as amended: the stage of a session never drops below 1 and never
\* exceeds 5, the upper bound of the clamp of the jump endpoint.
C1_StageWithinClamp ==
  \A i \in SessionIndexes : sessions[i].stage \in JumpClampMin..JumpClampMax

\* a jump has put a session above the final stage
C1_Witness ==
  /\ last.op = "jump"
  /\ last.status = 200
  /\ \E i \in SessionIndexes : sessions[i].stage = JumpClampMax

\* C2: a session of a group other than A and B is never at stage 3.
C2_NoPeerStageForNonPeerGroup ==
  \A i \in SessionIndexes :
    ToUpperCase(sessions[i].group) \notin {<<"A">>, <<"B">>} => sessions[i].stage # 3

\* ------------------------------------------------------------------------
\* Write-once submissions
\* ------------------------------------------------------------------------
\* C7: a prewriting submission on a session whose prewriting text is
\* non-empty is answered with an error and leaves the prewriting text, its
\* timestamp and the stage of the session as they were.
C7_PrewritingWriteOnce ==
  [][\A k \in RequestKeys, t \in TextInputs :
       LET idx == findSession(k)
       IN (PostPrewriting(k, t) /\ idx # 0 /\ sessions[idx].preText # <<>>)
            => /\ last'.status = 400
               /\ sessions'[idx].preText = sessions[idx].preText
               /\ sessions'[idx].preSubmittedAt = sessions[idx].preSubmittedAt
               /\ sessions'[idx].stage = sessions[idx].stage]_vars

\* a resubmission was rejected at a later time than the first submission,
\* on a session that had been moved back to stage 1
C7_Witness ==
  /\ last.op = "prewriting"
  /\ last.status = 400
  /\ \E i \in SessionIndexes :
       /\ sessions[i].preText # <<>>
       /\ sessions[i].preSubmittedAt < now
       /\ sessions[i].stage = 1

\* C8: a final submission on a session whose final text is non-empty is
\* answered with an error and the stored final text is not changed.
C8_FinalWriteOnce ==
  [][\A k \in RequestKeys, t \in TextInputs :
       LET idx == findSession(k)
       IN (PostFinal(k, t) /\ idx # 0 /\ sessions[idx].finalText # <<>>)
            => /\ last'.status # 200
               /\ sessions'[idx].finalText = sessions[idx].finalText]_vars

\* ------------------------------------------------------------------------
\* Partner linkage and rooms
\* ------------------------------------------------------------------------
\* session q is the session the partner id of session p refers to
IsPartnerSessionOf(q, p) ==
  /\ q.sessionKey # p.sessionKey
  /\ q.group = p.group
  /\ p.partnerStudentId # <<>>
  /\ q.studentId = p.partnerStudentId

\* C3: partner linkage is symmetric: if session P lists participant Q as
\* partner and the session of Q exists, the session of Q lists P.
C3_PartnerLinkSymmetric ==
  \A i, j \in SessionIndexes :
    IsPartnerSessionOf(sessions[j], sessions[i])
      => sessions[j].partnerStudentId = sessions[i].studentId

\* C4: two sessions that list each other as partner carry the same roomId.
C4_PairedSessionsShareRoom ==
  \A i, j \in SessionIndexes :
    (IsPartnerSessionOf(sessions[j], sessions[i])
       /\ IsPartnerSessionOf(sessions[i], sessions[j]))
      => sessions[i].roomId = sessions[j].roomId

\* C5: a successful assign of P to an existing session Q leaves P with the
\* participant id of Q as partner, Q with the participant id of P, and both
\* with one roomId: the room P had, else the room Q had, else the pair room
\* derived from the two session keys.
C5_AssignLinksBothSides ==
  [][\A k \in SessionKeys, payload \in LinkPayloads :
       LET idx == findSession(k)
           pIdx == resolvePartner(idx, payload)
       IN (/\ last'.op = "assign"
           /\ last'.status = 200
           /\ pIdx # 0
           /\ AdminAssignPartner(k, payload))
            => /\ sessions'[idx].partnerStudentId = sessions[pIdx].studentId
               /\ sessions'[pIdx].partnerStudentId = sessions[idx].studentId
               /\ sessions'[idx].roomId = sessions'[pIdx].roomId
               /\ sessions'[idx].roomId =
                    OrStr(sessions[idx].roomId,
                      OrStr(sessions[pIdx].roomId,
                        makePairRoomId(sessions[idx].sessionKey,
                                       sessions[pIdx].sessionKey)))]_vars

\* an assign has paired two sessions that were created with solo rooms
C5_Witness ==
  /\ last.op = "assign"
  /\ last.status = 200
  /\ \E i, j \in SessionIndexes :
       /\ i # j
       /\ sessions[i].partnerStudentId = sessions[j].studentId
       /\ sessions[j].partnerStudentId = sessions[i].studentId
       /\ sessions[i].roomId = sessions[j].roomId
       /\ Head(sessions[i].roomId) = "solo_"

\* sessions p and q list each other and share a room
ArePaired(p, q) ==
  /\ p.sessionKey # q.sessionKey
  /\ p.partnerStudentId = q.studentId
  /\ q.partnerStudentId = p.studentId
  /\ p.roomId = q.roomId

\* C6: after clear(P), P has no partner and the session P was paired with
\* no longer lists P.
C6_ClearUnlinksBothSides ==
  [][\A k \in SessionKeys :
       LET idx == findSession(k)
       IN AdminClearPartner(k)
            => /\ sessions'[idx].partnerStudentId = <<>>
               /\ \A q \in SessionIndexes :
                    ArePaired(sessions[idx], sessions[q])
                      => sessions'[q].partnerStudentId # sessions[idx].studentId]_vars

\* ------------------------------------------------------------------------
\* ensure
\* ------------------------------------------------------------------------
\* C9 as stated: a repeated start for an existing session changes neither a
\* non-empty roomId nor non-empty partner fields, whatever roster updates or
\* assign operations came before it.
C9_EnsureKeepsLinkage ==
  [][\A p \in PairParticipants :
       LET idx == findSession(buildSessionKey(p.group, p.id).key)
       IN (SessionStart(p.group, p.id, p.name) /\ idx # 0)
            => /\ sessions[idx].roomId # <<>>
                    => sessions'[idx].roomId = sessions[idx].roomId
               /\ sessions[idx].partnerStudentId # <<>>
                    => sessions'[idx].partnerStudentId = sessions[idx].partnerStudentId
               /\ sessions[idx].partnerName # <<>>
                    => sessions'[idx].partnerName = sessions[idx].partnerName]_vars

\* C9 as amended: a repeated start for an existing session never changes a
\* non-empty roomId; it leaves the partner fields as they are when no pairing
\* row matches the participant, and otherwise sets each partner field to the
\* value of the matching row (keeping the stored value where the row has none).
C9_EnsureKeepsRoomAndFollowsRoster ==
  [][\A p \in PairParticipants :
       LET idx == findSession(buildSessionKey(p.group, p.id).key)
           hint == findMatchForStudent(p.group, p.id, p.name)
       IN (last'.op = "start" /\ idx # 0 /\ SessionStart(p.group, p.id, p.name))
            => /\ sessions[idx].roomId # <<>>
                    => sessions'[idx].roomId = sessions[idx].roomId
               /\ ~hint.found
                    => /\ sessions'[idx].partnerStudentId = sessions[idx].partnerStudentId
                       /\ sessions'[idx].partnerName = sessions[idx].partnerName
               /\ hint.found
                    => /\ sessions'[idx].partnerStudentId =
                            OrStr(hint.partnerId, sessions[idx].partnerStudentId)
                       /\ sessions'[idx].partnerName =
                            OrStr(hint.partnerName, sessions[idx].partnerName)]_vars

\* a session created with a solo room, and since paired with another session
\* in that room, was started again after the roster declared a third partner
C9_Witness ==
  /\ last.op = "start"
  /\ last.status = 200
  /\ \E i, j \in SessionIndexes :
       /\ i # j
       /\ Head(sessions[i].roomId) = "solo_"
       /\ sessions[j].roomId = sessions[i].roomId
       /\ sessions[j].partnerStudentId = sessions[i].studentId
       /\ sessions[i].partnerStudentId = <<"A", "3">>

\* the stage and the four content blocks of a record
ContentOf(record) ==
  <<record.stage,
    record.preText, record.preSubmittedAt,
    record.draftText, record.draftSavedAt,
    record.notesText, record.notesUpdatedAt,
    record.finalText, record.finalSubmittedAt>>

\* C10: the store never holds two sessions with one sessionKey, and a start
\* for an existing key keeps the record in place with its stage and content
\* blocks unchanged.
C10_EnsureGetOrCreate ==
  [][/\ \A i, j \in 1..Len(sessions') :
          sessions'[i].sessionKey = sessions'[j].sessionKey => i = j
     /\ \A p \in PairParticipants :
          LET key == buildSessionKey(p.group, p.id).key
              idx == findSession(key)
          IN (last'.op = "start" /\ SessionStart(p.group, p.id, p.name))
               => /\ \E i \in 1..Len(sessions') : sessions'[i].sessionKey = key
                  /\ idx # 0
                       => /\ Len(sessions') = Len(sessions)
                          /\ sessions'[idx].sessionKey = key
                          /\ ContentOf(sessions'[idx]) = ContentOf(sessions[idx])]_vars

\* a start was answered while both sessions already had a saved draft
C10_Witness ==
  /\ last.op = "start"
  /\ last.status = 200
  /\ Len(sessions) = 2
  /\ \A i \in SessionIndexes : sessions[i].draftText # <<>> /\ sessions[i].stage = 2

\* ------------------------------------------------------------------------
\* SpecPresence: two sessions of one group, heartbeats, leaves and the clock.
\* SpecPurge: the same sessions and heartbeats while an administrator pairs
\* the two and deletes sessions.
\* ------------------------------------------------------------------------
PresenceParticipants ==
  { Participant(<<"A">>, <<"A", "1">>, <<"K">>),
    Participant(<<"A">>, <<"A", "2">>, <<"L">>) }

\* the waits between two requests, in ms
ElapseSteps == {9999, 10000}

NextPresence ==
  \/ \E p \in PresenceParticipants : SessionStart(p.group, p.id, p.name)
  \/ \E k \in RequestKeys : PresenceTouch(k)
  \/ \E k \in RequestKeys : PresenceLeave(k)
  \/ \E ms \in ElapseSteps : Elapse(ms)

SpecPresence == Init /\ [][NextPresence]_vars

\* the sessionKeys arrays of a bulk delete: none, one key, every session
PurgeRequests == DeleteRequests \cup {SessionKeys}

NextPurge ==
  \/ \E p \in PresenceParticipants : SessionStart(p.group, p.id, p.name)
  \/ \E k \in RequestKeys : PresenceTouch(k)
  \/ \E k \in RequestKeys : PresenceLeave(k)
  \/ \E k \in SessionKeys, payload \in KeyPayloads : AdminAssignPartner(k, payload)
  \/ \E k \in SessionKeys : AdminClearPartner(k)
  \/ \E keys \in PurgeRequests : AdminBulkDelete(keys)

SpecPurge == Init /\ [][NextPurge]_vars

\* ------------------------------------------------------------------------
\* C11: makePairRoomId is order-independent: the room id returned for
\* (a, b) is the room id of (b, a), for every pair of keys.
C11_PairRoomIdSymmetric ==
  last.op = "makePairRoomId" => last.out = makePairRoomId(last.b, last.a)

\* the call was made with the larger key first
C11_Witness ==
  /\ last.op = "makePairRoomId"
  /\ StrLess(Trim(last.b), Trim(last.a))
  /\ Head(last.out) = "r_"

\* C12 as stated: buildSessionKey returns the same key on a repeated call,
\* returns distinct keys for two valid pairs that differ after normalisation
\* (also when a group or an id contains the separator), and fails when the
\* group or the id is empty.
NormalizedPair(call) == <<ToUpperCase(call.group), Trim(call.studentId)>>

C12_SessionKeyStableAndInjective ==
  last.op = "buildSessionKey" =>
    /\ \A call \in {last.first, last.second} :
         /\ call.again = call.result
         /\ (call.group = <<>> \/ call.studentId = <<>>) => ~call.result.ok
    /\ (/\ last.first.result.ok
        /\ last.second.result.ok
        /\ NormalizedPair(last.first) # NormalizedPair(last.second))
         => last.first.result.key # last.second.result.key

\* ------------------------------------------------------------------------
\* C13: presence follows the TTL: the summary of a session taken right after
\* its heartbeat reports it online, and in every state the summary reports a
\* session online exactly when it has a heartbeat and less than the TTL
\* (20 s) has passed since then; when the TTL or more has passed it reports
\* the session offline.
C13_PresenceFollowsTtl ==
  [][/\ \A k \in RequestKeys :
          LET idx == findSession(k)
          IN (PresenceTouch(k) /\ idx # 0)
               => /\ presenceOf(sessions[idx])'.self.online = TRUE
                  /\ presenceOf(sessions[idx])'.self.lastSeen = now
     /\ \A i \in 1..Len(sessions') :
          LET summary == presenceOf(sessions[i])'
              lastSeen == readPresence(sessions[i].roomId, sessions[i].studentId)'
          IN   /\ (lastSeen # 0 /\ now' - lastSeen < PRESENCE_TTL_MS)
                    => summary.self.online = TRUE
               /\ (lastSeen # 0 /\ now' - lastSeen >= PRESENCE_TTL_MS)
                    => summary.self.online = FALSE
               /\ lastSeen = 0 => summary.self.online = 0]_vars

\* exactly the TTL has passed since a session's heartbeat; it is offline
C13_Witness ==
  \E i \in SessionIndexes :
    LET lastSeen == readPresence(sessions[i].roomId, sessions[i].studentId)
    IN /\ lastSeen # 0
       /\ now - lastSeen = PRESENCE_TTL_MS
       /\ presenceOf(sessions[i]).self.online = FALSE

\* ------------------------------------------------------------------------
\* a peer-enabled group: one whose workflow has the peer-notes stage (A, B)
IsPeerGroup(record) ==
  ToUpperCase(record.group) = <<"A">> \/ ToUpperCase(record.group) = <<"B">>

\* C14 as stated: advance from stage 2 fails on an empty draft and otherwise
\* moves to stage 3 in a peer-enabled group and to stage 4 in any other group;
\* from stage 3 it fails on empty notes and otherwise moves to stage 4; from
\* stage 1 it moves to stage 2.
C14_AdvanceToPeerByGroup ==
  [][\A k \in RequestKeys :
       LET idx == findSession(k)
           record == sessions[idx]
           stage == stageOf(record)
       IN (PostAdvance(k) /\ idx # 0) =>
            /\ (stage = 2 /\ record.draftText = <<>>)
                 => last'.status = 400 /\ sessions'[idx].stage = record.stage
            /\ (stage = 2 /\ record.draftText # <<>>)
                 => /\ last'.status = 200
                    /\ sessions'[idx].stage = IF IsPeerGroup(record) THEN 3 ELSE 4
            /\ (stage = 3 /\ record.notesText = <<>>)
                 => last'.status = 400 /\ sessions'[idx].stage = record.stage
            /\ (stage = 3 /\ record.notesText # <<>>)
                 => last'.status = 200 /\ sessions'[idx].stage = 4
            /\ stage = 1
                 => last'.status = 200 /\ sessions'[idx].stage = 2]_vars

\* the prerequisite an error message of advance-final names is missing
NamedPrerequisiteMissing(record, message) ==
  /\ message \in {MsgSaveDraftFirst, MsgSaveNotesFirst, MsgCompletePreviousStage}
  /\ message = MsgSaveDraftFirst => record.draftText = <<>>
  /\ message = MsgSaveNotesFirst => record.notesText = <<>>
  /\ message = MsgCompletePreviousStage => stageOf(record) < 3

\* C15 as stated: advance-final on a group A session at stage 1 with empty
\* draft and empty notes fails with an error naming the missing draft, and a
\* failed advance-final names a prerequisite that is missing.
C15_AdvanceFinalNamesDraft ==
  [][\A k \in RequestKeys :
       LET idx == findSession(k)
           record == sessions[idx]
       IN (PostAdvanceFinal(k) /\ idx # 0) =>
            /\ (/\ ToUpperCase(record.group) = <<"A">>
                /\ stageOf(record) = 1
                /\ record.draftText = <<>>
                /\ record.notesText = <<>>)
                 => last'.status = 400 /\ last'.message = MsgSaveDraftFirst
            /\ last'.status = 400
                 => NamedPrerequisiteMissing(record, last'.message)]_vars

\* C15 as amended: advance-final on a group A session at stage 1 with empty
\* draft and empty notes fails with the error naming the missing notes (for
\* groups A and B the notes are tested first, then the stage, then the
\* draft), and a failed advance-final names a prerequisite that is missing.
C15_AdvanceFinalNamesNotes ==
  [][\A k \in RequestKeys :
       LET idx == findSession(k)
           record == sessions[idx]
       IN (PostAdvanceFinal(k) /\ idx # 0) =>
            /\ (IsPeerGroup(record) /\ record.notesText = <<>>)
                 => /\ last'.status = 400
                    /\ last'.message = MsgSaveNotesFirst
                    /\ sessions'[idx].stage = record.stage
            /\ last'.status = 400
                 => NamedPrerequisiteMissing(record, last'.message)]_vars

\* advance-final was refused, naming the notes, on a group A session at
\* stage 1 that has neither draft nor notes
C15_Witness ==
  /\ last.op = "advance-final"
  /\ last.status = 400
  /\ last.message = MsgSaveNotesFirst
  /\ \E i \in SessionIndexes :
       /\ sessions[i].group = <<"A">>
       /\ sessions[i].stage = 1
       /\ sessions[i].draftText = <<>>
       /\ sessions[i].notesText = <<>>

\* C16 as stated: advance-final succeeds exactly when the draft is non-empty
\* and, for a peer-enabled group only, the notes are non-empty and the stage
\* is at least 3; on success the stage is 4.
C16_AdvanceFinalSucceedsExactlyWhen ==
  [][\A k \in RequestKeys :
       LET idx == findSession(k)
           record == sessions[idx]
           allowed == /\ record.draftText # <<>>
                      /\ IsPeerGroup(record)
                           => record.notesText # <<>> /\ stageOf(record) >= 3
       IN (PostAdvanceFinal(k) /\ idx # 0) =>
            /\ last'.status = 200 <=> allowed
            /\ last'.status = 200 => sessions'[idx].stage = 4]_vars

\* the prerequisite of a forward jump to stage 2, 3 or 4
JumpPrerequisite(record, desired) ==
  CASE desired = 2 -> record.preText # <<>>
    [] desired = 3 -> record.draftText # <<>>
    [] desired = 4 -> IF IsPeerGroup(record) THEN record.notesText # <<>>
                      ELSE record.draftText # <<>>
    [] OTHER -> TRUE

\* C17 as stated: a forward jump to stage 2, 3 or 4 succeeds only if the
\* prerequisite of the target stage is met, a failed jump leaves the stage
\* unchanged, and a jump to the current stage changes nothing.
C17_ForwardJumpNeedsPrerequisite ==
  [][\A k \in RequestKeys, requested \in RequestedStages :
       LET idx == findSession(k)
           record == sessions[idx]
           desired == clampStage(requested)
       IN (PostJump(k, requested) /\ idx # 0) =>
            /\ (desired > stageOf(record) /\ desired \in 2..4 /\ last'.status = 200)
                 => JumpPrerequisite(record, desired)
            /\ last'.status # 200 => sessions'[idx].stage = record.stage
            /\ desired = stageOf(record) => sessions'[idx] = record]_vars

\* C18 as stated: regress never fails and moves one step backward: from
\* stage 4 to 3 in a peer-enabled group and to 2 in any other group, from 3
\* to 2, from 2 to 1, and not at all from stage 1.
C18_RegressOneStep ==
  [][\A k \in RequestKeys :
       LET idx == findSession(k)
           record == sessions[idx]
           stage == stageOf(record)
       IN (PostRegress(k) /\ idx # 0) =>
            /\ last'.status = 200
            /\ stage = 4 => sessions'[idx].stage = IF IsPeerGroup(record) THEN 3 ELSE 2
            /\ stage = 3 => sessions'[idx].stage = 2
            /\ stage = 2 => sessions'[idx].stage = 1
            /\ stage = 1 => sessions'[idx] = record]_vars

\* ------------------------------------------------------------------------
\* the sessions a bulk delete of keys removes
RemovedBy(keys) == {i \in SessionIndexes : sessions[i].sessionKey \in deleteKeySet(keys)}

IsEntryOf(key, studentId) ==
  /\ Len(key) > Len(studentId)
  /\ SubSeq(key, Len(key) - Len(studentId) + 1, Len(key)) = studentId
  /\ key[Len(key) - Len(studentId)] = "|"

\* C20 as stated: after a bulk delete the presence map holds no entry of the
\* participant of a deleted session, whatever room the entry was made in.
C20_DeletePurgesPresence ==
  [][\A keys \in PurgeRequests :
       (AdminBulkDelete(keys) /\ keys # {}) =>
         \A j \in RemovedBy(keys), key \in DOMAIN presenceMap' :
           ~IsEntryOf(key, sessions[j].studentId)]_vars

\* ------------------------------------------------------------------------
\* SpecMutate: two callers of the data store's updateSession on the files of
\* one saved session, while time passes.
\* ------------------------------------------------------------------------
Callers == {"c1", "c2"}

SavedKey == <<"A", "|", "1">>

\* the record handed to saveSession; its sessionKey is replaced by the key
SavedData ==
  [exists |-> TRUE, sessionKey |-> <<>>, draftText |-> <<>>, notesText |-> <<>>,
   updatedAt |-> now]

MutateKeys == {<<>>, SavedKey, UnknownKey}

NextMutate ==
  \/ SaveSession(SavedKey, SavedData)
  \/ \E c \in Callers, k \in MutateKeys, u \in Updaters : UpdateSessionRead(c, k, u)
  \/ \E c \in Callers : UpdateSessionWrite(c)
  \/ \E ms \in ElapseSteps : Elapse(ms)

SpecMutate == Init /\ [][NextMutate]_vars

\* ------------------------------------------------------------------------
\* SpecBucket: the store is constructed with a bucket; every write of
\* sessions.json can fail at the bucket, at the disk, or at both.
\* ------------------------------------------------------------------------
InitBucket ==
  /\ sessions = <<>>
  /\ matchups = <<>>
  /\ roster = [students |-> <<>>, pairings |-> <<>>]
  /\ presenceMap = [k \in {} |-> 0]
  /\ disk = <<>>
  /\ now = 1
  /\ last = Respond("none", 0)
  /\ bucket = [NoBucket EXCEPT !.configured = TRUE]
  /\ inflight = {}
  /\ files = [k \in {} |-> 0]
  /\ calls = [c \in {} |-> 0]
  /\ tokens = [t \in {} |-> 0]
  /\ adminTokens = [t \in {} |-> 0]
  /\ minted = {}

NextBucket ==
  \/ \E p \in PresenceParticipants, saveOk \in BOOLEAN, writeFileOk \in BOOLEAN :
       StartWithBackend(p.group, p.id, p.name, saveOk, writeFileOk)
  \/ \E k \in SessionKeys, t \in {<<"x">>, <<"y">>},
        saveOk \in BOOLEAN, writeFileOk \in BOOLEAN :
       DraftWithBackend(k, t, saveOk, writeFileOk)
  \/ StoreInit

SpecBucket == InitBucket /\ [][NextBucket]_vars

\* ------------------------------------------------------------------------
\* SpecRoster: the roster is posted once, before any session exists, and
\* then participants of group A start their sessions in any order.  Two of
\* the four participants have the same display name.
\* ------------------------------------------------------------------------
RosterStudents ==
  <<Student(<<"A", "1">>, <<"K">>), Student(<<"A", "2">>, <<"L">>),
    Student(<<"A", "3">>, <<"K">>), Student(<<"A", "4">>, <<"M">>)>>

DeclaredRosters ==
  LET st == RosterStudents
  IN {[students |-> st, pairings |-> <<Pairing(st[1], st[2])>>],
      [students |-> st, pairings |-> <<Pairing(st[1], st[2]), Pairing(st[3], st[4])>>],
      [students |-> st, pairings |-> <<Pairing(st[4], st[3]), Pairing(st[2], st[1])>>]}

RosterParticipants ==
  {Participant(<<"A">>, RosterStudents[i].id, RosterStudents[i].name) : i \in 1..4}
  \cup {Participant(<<"A">>, <<"A", "5">>, <<"N">>)}

PostRosterFirst(body) ==
  /\ sessions = <<>>
  /\ matchups = <<>>
  /\ AdminPostRoster(body)

\* one findMatchForStudent call: arguments and outcome
CallFindMatch(group, studentId, studentName) ==
  /\ last' = [op |-> "findMatchForStudent", group |-> group,
              studentId |-> studentId, studentName |-> studentName,
              result |-> findMatchForStudent(group, studentId, studentName)]
  /\ UNCHANGED <<sessions, matchups, roster, presenceMap, disk, now, ioVars>>

NextRoster ==
  \/ \E body \in DeclaredRosters : PostRosterFirst(body)
  \/ \E p \in RosterParticipants : SessionStart(p.group, p.id, p.name)
  \/ \E p \in RosterParticipants : CallFindMatch(p.group, p.id, p.name)

SpecRoster == Init /\ [][NextRoster]_vars

\* ------------------------------------------------------------------------
\* SpecFrame: two participants of group A, one sending its group in lower
\* case and its id with a trailing blank, who start, write, move between
\* stages and are paired and unpaired by the administrator.
\* ------------------------------------------------------------------------
NextFrame ==
  \/ \E p \in PairParticipants : SessionStart(p.group, p.id, p.name)
  \/ \E k \in SessionKeys : PostDraft(k, <<"x">>)
  \/ \E k \in SessionKeys : PostAdvance(k)
  \/ \E k \in SessionKeys : PostRegress(k)
  \/ \E k \in SessionKeys, payload \in AssignPayloads(PairStudentIds) :
       AdminAssignPartner(k, payload)
  \/ \E k \in SessionKeys : AdminClearPartner(k)

SpecFrame == Init /\ [][NextFrame]_vars

\* ------------------------------------------------------------------------
\* SpecAtomic: two participants, one of group A and one of group B, are
\* paired by session key and unpaired while earlier requests of the
\* administrator are still being written.
\* ------------------------------------------------------------------------
AtomicParticipants ==
  {Participant(<<"A">>, <<"A", "2">>, <<"L">>),
   Participant(<<"B">>, <<"B", "1">>, <<"K">>)}

NextAtomic ==
  \/ \E p \in AtomicParticipants : SessionStart(p.group, p.id, p.name)
  \/ \E k \in SessionKeys, payload \in KeyPayloads : AssignMutate(k, payload)
  \/ \E k \in SessionKeys : ClearMutate(k)
  \/ \E w \in inflight : TakeSnapshot(w)
  \/ \E w \in inflight : CompleteWrite(w)

SpecAtomic == Init /\ [][NextAtomic]_vars

\* ------------------------------------------------------------------------
\* C21 as stated: updateSession on an unknown key fails with the not-found
\* error and writes nothing; on a known key it writes the record as the
\* updater transformed it, with updatedAt set to the time of the write.
C21_MutatePersistsTransformed ==
  [][/\ \A c \in Callers, u \in Updaters :
          UpdateSessionRead(c, UnknownKey, u)
            => /\ last'.thrown
               /\ last'.message = MsgSessionNotFound
               /\ files' = files
     /\ \A c \in Callers :
          (UpdateSessionWrite(c) /\ c \in DOMAIN calls)
            => LET transformed == runUpdater(calls[c].updater, calls[c].current).rec
               IN files'[calls[c].sessionKey] = [transformed EXCEPT !.updatedAt = now]]_vars

\* C29: updateSession has no mutual exclusion: what a call writes is the
\* whole record made from its own read, whatever the file holds when the
\* write is done, so a field written by another call between the read and
\* the write is put back to the value that was read.
C29_WriteIsMadeFromOwnRead ==
  [][\A c \in Callers :
       (UpdateSessionWrite(c) /\ c \in DOMAIN calls)
         => LET key == calls[c].sessionKey
                read == calls[c].current
            IN /\ calls[c].updater # "returnDraft"
                    => files'[key].draftText = read.draftText
               /\ calls[c].updater # "returnNotes"
                    => files'[key].notesText = read.notesText
               /\ calls[c].updater = "returnDraft" => files'[key].draftText = <<"x">>
               /\ calls[c].updater = "returnNotes" => files'[key].notesText = <<"y">>]_vars

\* the lost update: the call that returned last wrote notes over a file that
\* held another call's draft; the file has the notes and no draft
C29_Witness ==
  /\ last.op = "updateSession"
  /\ ~last.thrown
  /\ last.call.updater = "returnNotes"
  /\ last.call.current.draftText = <<>>
  /\ last.replaced.draftText = <<"x">>
  /\ files[SavedKey].notesText = <<"y">>
  /\ files[SavedKey].draftText = <<>>
  /\ files[SavedKey].updatedAt > last.call.current.updatedAt
  /\ calls = [c \in {} |-> 0]

\* C22 as stated: a request that changes sessions answers success only
\* when its write reached the backend: after a request answered 200 the
\* backend's copy of sessions.json, the one the store reads at its next
\* start, is the sessions the request left in memory.
C22_SuccessMeansWritten ==
  [][(last'.op \in {"start", "draft"} /\ last'.status = 200)
       => /\ bucket'.saved
          /\ bucket'.sessions = sessions']_vars

\* the rows of the group that declare the participant by identifier
RowsById(group, sid) ==
  {i \in 1..Len(matchups) :
     /\ ToUpperCase(matchups[i].group) = ToUpperCase(group)
     /\ sid \in {matchups[i].studentIdA, matchups[i].studentIdB}}

\* the rows of the group that name the participant by display name
RowsByName(group, sname) ==
  {i \in 1..Len(matchups) :
     /\ ToUpperCase(matchups[i].group) = ToUpperCase(group)
     /\ sname \in {matchups[i].nameA, matchups[i].nameB}}

OtherMember(row, sid) ==
  IF row.studentIdA = sid THEN row.studentIdB ELSE row.studentIdA

\* C23 as stated: once the roster declares p and q a pair of group A, the
\* session that p's first ensure creates has partner q and the room of the
\* pair {p, q}; so the sessions of p and q, whichever was created first,
\* have one roomId and name each other.
C23_RosterPairConverges ==
  \A i \in SessionIndexes :
    \A r \in RowsById(sessions[i].group, sessions[i].studentId) :
      LET q == OtherMember(matchups[r], sessions[i].studentId)
      IN /\ sessions[i].partnerStudentId = q
         /\ sessions[i].roomId = makePairRoomId(sessions[i].studentId, q)

\* C26 as stated: findMatchForStudent answers from a row that declares the
\* participant's identifier when the group has one, whatever rows name the
\* participant's display name and wherever they stand; the partner is the
\* other member of that row; with no matching row the answer is null.
C26_IdentifierMatchDecides ==
  (last.op = "findMatchForStudent")
    => LET byId == RowsById(last.group, Trim(last.studentId))
           byName == RowsByName(last.group, Trim(last.studentName))
       IN /\ byId # {}
               => /\ last.result.found
                  /\ \E r \in byId :
                       last.result.partnerId
                         = OtherMember(matchups[r], Trim(last.studentId))
          /\ (byId = {} /\ byName = {}) => ~last.result.found

\* C24 as stated: an assign that names a partner id with no session stores
\* the partner id and name on the session and nothing else (its roomId is
\* as before); when the named participant's session is then created by
\* ensure, the two sessions name each other and have one roomId.
C24_HintResolvedOnPartnerStart ==
  [][/\ \A k \in SessionKeys, payload \in AssignPayloads(CrossStudentIds) :
          LET idx == findSession(k)
          IN (/\ AdminAssignPartner(k, payload)
              /\ resolvePartner(idx, payload) = 0
              /\ Trim(payload.partnerId) # <<>>)
               => sessions' = [sessions EXCEPT
                    ![idx] = [@ EXCEPT !.partnerStudentId = Trim(payload.partnerId),
                                       !.partnerName = Trim(payload.partnerName),
                                       !.updatedAt = now]]
     /\ \A p \in CrossParticipants :
          (/\ SessionStart(p.group, p.id, p.name)
           /\ findSession(buildSessionKey(p.group, p.id).key) = 0)
            => \A i \in SessionIndexes :
                 (/\ sessions[i].group = ToUpperCase(p.group)
                  /\ sessions[i].partnerStudentId = Trim(p.id))
                   => LET created == sessions'[Len(sessions')]
                      IN /\ created.partnerStudentId = sessions'[i].studentId
                         /\ sessions'[i].partnerStudentId = created.studentId
                         /\ created.roomId = sessions'[i].roomId]_vars

\* C25: an assign whose partner resolves to the session itself, named by
\* its key or by its own participant id, answers 400 and leaves every
\* session, in memory and on disk, as it was.
C25_AssignRefusesSelf ==
  [][\A k \in SessionKeys, payload \in AssignPayloads(PairStudentIds) :
       LET idx == findSession(k)
       IN (AdminAssignPartner(k, payload) /\ resolvePartner(idx, payload) = idx)
            => /\ last'.status = 400
               /\ sessions' = sessions
               /\ disk' = disk]_vars

\* an assign of a session to itself has been refused while another session
\* of the group existed
C25_Witness ==
  /\ last.op = "assign"
  /\ last.status = 400
  /\ Len(sessions) >= 2

\* C27 as stated: a request to advance, to advance to the final stage, or
\* to submit prewriting, draft, notes or final text leaves no session at a
\* lower stage than it had.
C27_StageMonotonicWithoutRegress ==
  [][(last'.op \in {"advance", "advance-final", "prewriting", "draft", "notes", "final"})
       => \A i \in SessionIndexes : stageOf(sessions'[i]) >= stageOf(sessions[i])]_vars

\* C28: no request of a participant or of the administrator changes the
\* sessionKey, the group or the participant id of a session that exists.
C28_IdentityNeverChanges ==
  [][\A i \in SessionIndexes :
       /\ sessions'[i].sessionKey = sessions[i].sessionKey
       /\ sessions'[i].group = sessions[i].group
       /\ sessions'[i].studentId = sessions[i].studentId]_vars

\* the participant who sends group 'a' and id 'A2 ' has started again after
\* being paired, and holds a draft at a later stage
C28_Witness ==
  /\ last.op = "start"
  /\ \E i \in SessionIndexes :
       /\ sessions[i].sessionKey = <<"A", "|", "A", "2">>
       /\ sessions[i].group = <<"A">>
       /\ sessions[i].studentId = <<"A", "2">>
       /\ sessions[i].partnerStudentId = <<"A", "1">>
       /\ sessions[i].draftText = <<"x">>
       /\ stageOf(sessions[i]) >= 2

\* no record of the list names as partner a participant whose record in
\* the list does not name it back
BothSidesUpdated(list) ==
  \A i, j \in 1..Len(list) :
    (i # j /\ list[i].partnerStudentId = list[j].studentId)
      => list[j].partnerStudentId = list[i].studentId

\* C30 as stated: whatever requests are in progress, the sessions a request
\* reads, the sessions.json on disk and every JSON text being written hold
\* no pairing that assign or clear has changed on one side only.
C30_PartnerOpsAsUnit ==
  /\ BothSidesUpdated(sessions)
  /\ BothSidesUpdated(disk)
  /\ \A w \in inflight : w.phase = "writing" => BothSidesUpdated(w.json)

\* ------------------------------------------------------------------------
\* SpecStamp: two participants of group A start, are paired by session key
\* and deleted, while time passes.
\* ------------------------------------------------------------------------
NextStamp ==
  \/ \E p \in PresenceParticipants : SessionStart(p.group, p.id, p.name)
  \/ \E k \in SessionKeys, payload \in KeyPayloads : AdminAssignPartner(k, payload)
  \/ \E k \in SessionKeys : AdminBulkDelete({k})
  \/ Tick

SpecStamp == Init /\ [][NextStamp]_vars

\* C31 as stated: a session that an operation leaves with any field changed
\* has updatedAt equal to the time of the operation, and no operation lowers
\* the updatedAt of a session.
C31_UpdatedAtFollowsEveryChange ==
  [][\A i \in 1..Len(sessions), j \in 1..Len(sessions') :
       sessions[i].sessionKey = sessions'[j].sessionKey
         => /\ sessions'[j] # sessions[i] => sessions'[j].updatedAt = now
            /\ sessions'[j].updatedAt >= sessions[i].updatedAt]_vars

\* C32: an accepted draft or prewriting submission moves a session at stage
\* 1 to stage 2 and leaves a later stage as it is; accepted notes move a
\* session of group A or B below stage 3 to stage 3 and leave the stage of
\* any other session as it is; an accepted final submission leaves the
\* session at stage 4.
C32_SubmissionStage ==
  [][\A i \in SessionIndexes :
       LET stage == stageOf(sessions[i])
       IN last'.status = 200 =>
            /\ last'.op \in {"draft", "prewriting"}
                 => sessions'[i].stage = IF stage < 2 THEN 2 ELSE stage
            /\ last'.op = "notes"
                 => sessions'[i].stage =
                      IF IsPeerGroup(sessions[i]) /\ stage < 3 THEN 3 ELSE stage
            /\ last'.op = "final" => sessions'[i].stage = 4]_vars

\* notes were accepted from a session outside groups A and B, which is
\* still at stage 2
C32_Witness ==
  /\ last.op = "notes"
  /\ last.status = 200
  /\ \E i \in SessionIndexes :
       /\ ~IsPeerGroup(sessions[i])
       /\ sessions[i].notesText # <<>>
       /\ sessions[i].stage = 2

\* C33 as stated: no roomId is held by more than two sessions.
C33_RoomHoldsAtMostTwo ==
  \A i \in SessionIndexes :
    Cardinality({j \in SessionIndexes : sessions[j].roomId = sessions[i].roomId}) <= 2

\* ------------------------------------------------------------------------
\* SpecTwin: three participants, two of whom have one participant id in
\* different groups, start, are paired by session key and deleted.
\* ------------------------------------------------------------------------
TwinParticipants ==
  {Participant(<<"A">>, <<"1">>, <<"K">>),
   Participant(<<"A">>, <<"2">>, <<"L">>),
   Participant(<<"B">>, <<"2">>, <<"M">>)}

NextTwin ==
  \/ \E p \in TwinParticipants : SessionStart(p.group, p.id, p.name)
  \/ \E k \in SessionKeys, payload \in KeyPayloads : AdminAssignPartner(k, payload)
  \/ \E k \in SessionKeys : AdminClearPartner(k)
  \/ \E k \in SessionKeys : AdminBulkDelete({k})

SpecTwin == Init /\ [][NextTwin]_vars

\* C34 as stated: no session has its own participant id as partner id.
C34_NoSelfPartner ==
  \A i \in SessionIndexes : sessions[i].partnerStudentId # sessions[i].studentId

\* C38 as stated: a delete leaves the partner fields of a remaining session
\* as they were when the session of its own group with the listed partner id
\* remains too, whatever sessions of other groups are removed.
C38_DeleteKeepsLivePartnerLinks ==
  [][\A k \in SessionKeys :
       AdminBulkDelete({k})
         => \A i \in SessionIndexes, j \in 1..Len(sessions') :
              (/\ sessions'[j].sessionKey = sessions[i].sessionKey
               /\ \E q \in SessionIndexes \ {i} :
                    /\ sessions[q].sessionKey # k
                    /\ sessions[q].group = sessions[i].group
                    /\ sessions[q].studentId = sessions[i].partnerStudentId)
                => /\ sessions'[j].partnerStudentId = sessions[i].partnerStudentId
                   /\ sessions'[j].partnerName = sessions[i].partnerName]_vars

\* C35 as stated: a session at stage 4 has a draft and, in groups A and B,
\* notes.
C35_FinalStageHasPrerequisites ==
  \A i \in SessionIndexes :
    sessions[i].stage = 4
      => /\ sessions[i].draftText # <<>>
         /\ IsPeerGroup(sessions[i]) => sessions[i].notesText # <<>>

\* ------------------------------------------------------------------------
\* SpecWriteFail: participants start and submit prewriting on a store with
\* a bucket, every write of sessions.json failing or not at the bucket and at
\* the disk.
\* ------------------------------------------------------------------------
NextWriteFail ==
  \/ \E p \in PresenceParticipants, saveOk \in BOOLEAN, writeFileOk \in BOOLEAN :
       StartWithBackend(p.group, p.id, p.name, saveOk, writeFileOk)
  \/ \E k \in SessionKeys, saveOk \in BOOLEAN, writeFileOk \in BOOLEAN :
       PrewritingWithBackend(k, <<"x">>, saveOk, writeFileOk)
  \/ StoreInit

SpecWriteFail == InitBucket /\ [][NextWriteFail]_vars

\* C36 as stated: a request to advance, to advance to the final stage, to
\* jump, to submit prewriting or final text, or to assign a partner, that is
\* answered with an error leaves every session as it was.
C36_FailureChangesNothing ==
  [][(/\ last'.op \in {"advance", "advance-final", "jump", "prewriting", "final", "assign"}
      /\ last'.status # 200)
       => sessions' = sessions]_vars

\* ------------------------------------------------------------------------
\* SpecOverlap: draft requests of two participants whose writes of
\* sessions.json overlap and complete in any order.  The participants start
\* while no write is in progress.
\* ------------------------------------------------------------------------
QuietStart(group, studentId, studentName) ==
  /\ inflight = {}
  /\ SessionStart(group, studentId, studentName)

NextOverlap ==
  \/ \E p \in PresenceParticipants : QuietStart(p.group, p.id, p.name)
  \/ \E k \in SessionKeys, t \in {<<"x">>, <<"y">>} : DraftBegin(k, t)
  \/ \E w \in inflight : CompleteWrite(w)

SpecOverlap == Init /\ [][NextOverlap]_vars

\* C37 as stated: when no request is in progress and every request was
\* answered without error, sessions.json on disk is the session list in
\* memory.
C37_DiskEqualsMemoryWhenQuiet ==
  (inflight = {} /\ last.status \in {0, 200}) => disk = sessions

\* ------------------------------------------------------------------------
\* SpecChat: three callers of appendChatMessage, each appending one message
\* of its own to the peer chat of a room or to the AI chat of a session.
\* ------------------------------------------------------------------------
ChatCallers == {"c1", "c2", "c3"}

ChatTargets ==
  {[sessionId |-> "peer:r_1", channel |-> "peer"],
   [sessionId |-> "ai:A|1", channel |-> "ai"]}

NextChat ==
  \/ \E c \in ChatCallers, t \in ChatTargets, text \in {"x", "y"} :
       AppendChatRead(c, t.sessionId, t.channel, [from |-> c, text |-> text])
  \/ \E c \in ChatCallers : AppendChatWrite(c)

SpecChat == Init /\ [][NextChat]_vars

\* C39 as stated: the message of every appendChatMessage call that has
\* returned is in the stored history of its chat.
C39_ReturnedMessagesAreStored ==
  \A c \in DOMAIN calls :
    calls[c].returned
      => \E n \in 1..Len(chatHistory(calls[c].relativePath)) :
           chatHistory(calls[c].relativePath)[n] = calls[c].message

\* ------------------------------------------------------------------------
\* SpecToken: tokens are issued, validated and revoked at the admin service
\* and at the server, with waits of half the lifetime of a token, one
\* millisecond more and a whole lifetime.
\* ------------------------------------------------------------------------
TokenStrings == {"t1", "t2"}

WaitSteps ==
  {ADMIN_SESSION_TTL_MS \div 2, ADMIN_SESSION_TTL_MS \div 2 + 1, ADMIN_SESSION_TTL_MS}

NextToken ==
  \/ \E t \in TokenStrings : IssueToken(t)
  \/ \E t \in TokenStrings : ValidateToken(t)
  \/ \E t \in TokenStrings : RevokeToken(t)
  \/ \E t \in TokenStrings : IssueAdminToken(t)
  \/ \E t \in TokenStrings : ValidateAdminToken(t)
  \/ \E t \in TokenStrings : RevokeAdminToken(t)
  \/ \E ms \in WaitSteps : Wait(ms)

SpecToken == Init /\ [][NextToken]_vars

\* C40 as stated: a validation accepts a token only if the token is in the
\* map (issued, not revoked, not rejected as expired) and the time is not
\* past its expiry; an accepted validation sets the expiry to now + TTL; a
\* token that has left the map is accepted by no later validation.
C40_TokenLifetime ==
  [][\A t \in TokenStrings :
       /\ ValidateToken(t)
            => /\ last'.result => (t \in DOMAIN tokens /\ now <= tokens[t])
               /\ last'.result => tokens'[t] = now + tokenTtlMs
               /\ (t \in minted /\ t \notin DOMAIN tokens) => ~last'.result
       /\ ValidateAdminToken(t)
            => /\ last'.result
                    => (t \in DOMAIN adminTokens /\ now <= adminTokens[t].expiresAt)
               /\ last'.result
                    => adminTokens'[t].expiresAt = now + ADMIN_SESSION_TTL_MS
               /\ (t \in minted /\ t \notin DOMAIN adminTokens) => ~last'.result]_vars

====
